---- MODULE Spec2Model ----
(***************************************************************************)
(* Prism-TUI: the presentation state machine of the terminal dashboard.    *)
(*                                                                         *)
(* The model follows src/src/app.rs (struct App and its index arithmetic), *)
(* src/src/update.rs (the update engine: update, handle_key, handle_mouse, *)
(* toggle_group_collapse, poll_running_instances), src/src/view/*.rs (the   *)
(* click regions a render registers) and src/src/main.rs (the main loop).  *)
(*                                                                         *)
(* Strings whose content the program inspects (names, versions, loaders,   *)
(* group labels, the search query) are sequences of ASCII codes, so that   *)
(* to_lowercase, contains and cmp are computed and not assumed.  Option<T> *)
(* is a sequence of length 0 (None) or 1 (Some(x)).  Instants and          *)
(* durations are counted in units of 100 ms.                               *)
(***************************************************************************)
EXTENDS Integers, Sequences, FiniteSets, TLC

VARIABLES
    app,    \* struct App (src/src/app.rs:127-203); three more fields record the current
            \* loop iteration: event (the message delivered), calls (the messages update
            \* was entered with and the process scans it made, in order) and target (the
            \* region a left press resolved to); pressed records the last left press (the
            \* region it resolved to and the screen it was made on); launched records
            \* the instance ids launch_instance was called with in the current
            \* iteration; servers_dat is the servers file of each instance
    clock,  \* the value Instant::now() returns, in units of 100 ms
    pc,     \* position of the main loop (src/src/main.rs:42-56): "render" | "event" | "done"
    channel \* the mpsc channel of EventStream (src/src/tui/events.rs:15-18): queue holds
            \* the events sent and not yet received; sent records every event ever sent

vars == <<app, clock, pc, channel>>

----------------------------------------------------------------------------
(* Option<T> *)

None == <<>>
Some(x) == <<x>>
IsSome(o) == o # <<>>
Unwrap(o) == o[1]

----------------------------------------------------------------------------
(* Bounds of the model *)

\* longest text typed into the search entry
MaxQuery == 2
\* latest instant the clock reaches (units of 100 ms)
MaxClock == 6

----------------------------------------------------------------------------
(* Strings as sequences of ASCII codes *)

\* "Ungrouped", the key of the bucket of instances without a group label
Ungrouped == <<85, 110, 103, 114, 111, 117, 112, 101, 100>>

\* char::to_lowercase on ASCII
lower_char(c) == IF c >= 65 /\ c <= 90 THEN c + 32 ELSE c

\* str::to_lowercase
to_lowercase(s) == [i \in 1..Len(s) |-> lower_char(s[i])]

\* str::contains(pattern)
contains(s, q) ==
    \E i \in 0..(Len(s) - Len(q)) : SubSeq(s, i + 1, i + Len(q)) = q

\* Ord::cmp on integers: -1 Less, 0 Equal, 1 Greater
int_cmp(x, y) == IF x < y THEN -1 ELSE IF x > y THEN 1 ELSE 0

\* Ord::cmp on strings (byte-wise lexicographic)
RECURSIVE str_cmp(_, _)
str_cmp(s, t) ==
    IF s = <<>> /\ t = <<>> THEN 0
    ELSE IF s = <<>> THEN -1
    ELSE IF t = <<>> THEN 1
    ELSE IF Head(s) < Head(t) THEN -1
    ELSE IF Head(s) > Head(t) THEN 1
    ELSE str_cmp(Tail(s), Tail(t))

\* Ord::cmp on Option<i64>: None is less than every Some
opt_cmp(x, y) ==
    IF ~IsSome(x) /\ ~IsSome(y) THEN 0
    ELSE IF ~IsSome(x) THEN -1
    ELSE IF ~IsSome(y) THEN 1
    ELSE int_cmp(Unwrap(x), Unwrap(y))

----------------------------------------------------------------------------
(* The instance libraries the program is started on (data loaded by        *)
(* load_instances; each record is a struct Instance).                      *)

Inst(id, name, group, version, loader, played, last) ==
    [id |-> id, name |-> name, group |-> group, minecraft_version |-> version,
     mod_loader |-> loader, total_time_played |-> played, last_launch |-> last,
     server_join |-> None]

\* group "M": Ab, ba; group "V": b; no group: Aa
LibraryGrouped ==
    << Inst("i1", <<65, 98>>, Some(<<77>>), <<49, 46, 50>>, Some(<<102>>), 5, Some(30)),
       Inst("i2", <<98, 97>>, Some(<<77>>), <<49, 46, 49>>, None, 9, Some(20)),
       Inst("i3", <<98>>, Some(<<86>>), <<49, 46, 50>>, Some(<<70>>), 0, None),
       Inst("i4", <<65, 97>>, None, <<49, 46, 48>>, Some(<<102>>), 9, Some(10)) >>

\* a library without any group label
LibraryFlat ==
    << Inst("i1", <<98>>, None, <<49, 46, 50>>, None, 1, Some(20)),
       Inst("i2", <<65>>, None, <<49, 46, 49>>, Some(<<102>>), 2, None) >>

Libraries == {LibraryGrouped, LibraryFlat}

\* a library whose instances have servers: five for "i5", two for "i1"
LibraryServers ==
    << Inst("i5", <<83>>, None, <<49, 46, 50>>, None, 3, Some(30)),
       Inst("i1", <<98>>, None, <<49, 46, 50>>, None, 1, Some(20)) >>

\* the characters typed into the search entry: 'a', 'B', 'b'
SearchChars == {97, 66, 98}

----------------------------------------------------------------------------
(* Sorting and grouping (App::sort_and_group_instances, group_instances)   *)

SortModes == <<"LastPlayed", "Name", "Playtime", "Version", "ModLoader">>

\* a cycle that leaves ModLoader out
SortMode_next_short(m) ==
    CASE m = "LastPlayed" -> "Name"
      [] m = "Name" -> "Playtime"
      [] m = "Playtime" -> "Version"
      [] m = "Version" -> "LastPlayed"
      [] m = "ModLoader" -> "LastPlayed"

\* SortMode::next
SortMode_next(m) ==
    CASE m = "LastPlayed" -> "Name"
      [] m = "Name" -> "Playtime"
      [] m = "Playtime" -> "Version"
      [] m = "Version" -> "ModLoader"
      [] m = "ModLoader" -> "LastPlayed"

\* the comparison closure of sort_and_group_instances
sort_cmp(mode, ascending, a, b) ==
    LET ord == CASE mode = "LastPlayed" -> opt_cmp(b.last_launch, a.last_launch)
                 [] mode = "Name" -> str_cmp(to_lowercase(a.name), to_lowercase(b.name))
                 [] mode = "Playtime" -> int_cmp(b.total_time_played, a.total_time_played)
                 [] mode = "Version" -> str_cmp(a.minecraft_version, b.minecraft_version)
                 [] mode = "ModLoader" ->
                      str_cmp(IF IsSome(a.mod_loader) THEN Unwrap(a.mod_loader) ELSE <<>>,
                              IF IsSome(b.mod_loader) THEN Unwrap(b.mod_loader) ELSE <<>>)
    IN IF ascending THEN ord ELSE 0 - ord

\* slice::sort_by: a stable sort; x is inserted after every element it is not less than
RECURSIVE stable_insert(_, _, _, _)
stable_insert(mode, ascending, sorted, x) ==
    IF sorted = <<>> THEN <<x>>
    ELSE IF sort_cmp(mode, ascending, x, Head(sorted)) < 0 THEN <<x>> \o sorted
    ELSE <<Head(sorted)>> \o stable_insert(mode, ascending, Tail(sorted), x)

RECURSIVE sort_by(_, _, _)
sort_by(mode, ascending, s) ==
    IF s = <<>> THEN <<>>
    ELSE stable_insert(mode, ascending, sort_by(mode, ascending, SubSeq(s, 1, Len(s) - 1)),
                       s[Len(s)])

\* the members of one bucket, in the order of the instance list
RECURSIVE bucket(_, _)
bucket(instances, g) ==
    IF instances = <<>> THEN <<>>
    ELSE (IF Head(instances).group = g THEN <<Head(instances)>> ELSE <<>>)
         \o bucket(Tail(instances), g)

\* the comparison closure of group_instances: labelled groups by label, then None
group_less(g, h) ==
    IF IsSome(g) /\ IsSome(h) THEN str_cmp(Unwrap(g), Unwrap(h)) < 0
    ELSE IsSome(g) /\ ~IsSome(h)

RECURSIVE sorted_labels(_)
sorted_labels(S) ==
    IF S = {} THEN <<>>
    ELSE LET m == CHOOSE g \in S : \A h \in S \ {g} : group_less(g, h)
         IN <<m>> \o sorted_labels(S \ {m})

\* a grouping that puts the unlabelled bucket first
group_instances_unlabelled_first(instances) ==
    LET groups == {instances[i].group : i \in 1..Len(instances)}
        labels == (IF None \in groups THEN <<None>> ELSE <<>>)
                  \o sorted_labels(groups \ {None})
    IN [k \in 1..Len(labels) |->
          [group_name |-> labels[k], instances |-> bucket(instances, labels[k])]]

\* group_instances: Vec<GroupedInstances>
group_instances(instances) ==
    LET labels == sorted_labels({instances[i].group : i \in 1..Len(instances)})
    IN [k \in 1..Len(labels) |->
          [group_name |-> labels[k], instances |-> bucket(instances, labels[k])]]

\* group.group_name.as_deref().unwrap_or("Ungrouped")
group_key(group) == IF IsSome(group.group_name) THEN Unwrap(group.group_name) ELSE Ungrouped

----------------------------------------------------------------------------
(* Index arithmetic of App (src/src/app.rs)                                 *)

\* collapsed_groups.contains(&group_key)
is_collapsed(a, group) == group_key(group) \in a.collapsed_groups

\* (0..n).collect()
range_to(n) == [i \in 1..n |-> i - 1]

\* The instances the loops of flat_instance_index, instance_by_visual_idx and
\* update_search walk over: the members of the non-collapsed groups, in group
\* order; the loops' counter visual_count is the position in this sequence, from 0.
RECURSIVE visible_from(_, _)
visible_from(a, k) ==
    IF k > Len(a.grouped_instances) THEN <<>>
    ELSE (IF is_collapsed(a, a.grouped_instances[k]) THEN <<>>
          ELSE a.grouped_instances[k].instances)
         \o visible_from(a, k + 1)

visible_members(a) == visible_from(a, 1)

\* App::total_instance_count
RECURSIVE total_from(_, _)
total_from(a, k) ==
    IF k > Len(a.grouped_instances) THEN 0
    ELSE Len(a.grouped_instances[k].instances) + total_from(a, k + 1)

total_instance_count(a) == total_from(a, 1)

\* App::visible_instance_count
RECURSIVE visible_count_from(_, _)
visible_count_from(a, k) ==
    IF k > Len(a.grouped_instances) THEN 0
    ELSE (IF is_collapsed(a, a.grouped_instances[k]) THEN 0
          ELSE Len(a.grouped_instances[k].instances))
         + visible_count_from(a, k + 1)

visible_instance_count(a) == visible_count_from(a, 1)

\* App::instance_by_visual_idx
instance_by_visual_idx(a, target) ==
    IF target < Len(visible_members(a)) THEN Some(visible_members(a)[target + 1]) ELSE None

\* self.instances.iter().position(|i| i.id == id)
position_of_id(instances, id) ==
    IF \E p \in 1..Len(instances) : instances[p].id = id
    THEN Some((CHOOSE p \in 1..Len(instances) :
                  /\ instances[p].id = id
                  /\ \A q \in 1..(p - 1) : instances[q].id # id) - 1)
    ELSE None

\* App::flat_instance_index
flat_instance_index(a) ==
    IF a.selected_instance_index < Len(visible_members(a))
    THEN position_of_id(a.instances, visible_members(a)[a.selected_instance_index + 1].id)
    ELSE None

\* App::selected_instance
selected_instance(a) ==
    IF IsSome(flat_instance_index(a)) /\ Unwrap(flat_instance_index(a)) < Len(a.instances)
    THEN Some(a.instances[Unwrap(flat_instance_index(a)) + 1])
    ELSE None

\* App::selected_group_key
selected_group_key(a) ==
    IF a.selected_group_index < Len(a.grouped_instances)
    THEN Some(group_key(a.grouped_instances[a.selected_group_index + 1]))
    ELSE None

\* App::group_index_for_instance
RECURSIVE group_index_from(_, _, _, _)
group_index_from(a, instance_visual_idx, k, visual_count) ==
    IF k > Len(a.grouped_instances) THEN 0
    ELSE IF is_collapsed(a, a.grouped_instances[k])
         THEN group_index_from(a, instance_visual_idx, k + 1, visual_count)
    ELSE IF instance_visual_idx < visual_count + Len(a.grouped_instances[k].instances)
         THEN k - 1
    ELSE group_index_from(a, instance_visual_idx, k + 1,
                          visual_count + Len(a.grouped_instances[k].instances))

group_index_for_instance(a, instance_visual_idx) ==
    group_index_from(a, instance_visual_idx, 1, 0)

\* App::first_instance_in_group
RECURSIVE first_in_group_from(_, _, _, _)
first_in_group_from(a, group_idx, k, visual_count) ==
    IF k > Len(a.grouped_instances) THEN None
    ELSE IF is_collapsed(a, a.grouped_instances[k])
         THEN (IF k - 1 = group_idx THEN None
               ELSE first_in_group_from(a, group_idx, k + 1, visual_count))
    ELSE IF k - 1 = group_idx
         THEN (IF a.grouped_instances[k].instances = <<>> THEN None ELSE Some(visual_count))
    ELSE first_in_group_from(a, group_idx, k + 1,
                             visual_count + Len(a.grouped_instances[k].instances))

first_instance_in_group(a, group_idx) == first_in_group_from(a, group_idx, 1, 0)

\* the rows visual_rows pushes for the members of one expanded group
RECURSIVE member_rows(_, _, _)
member_rows(filtered_set, n, visual_idx) ==
    IF n = 0 THEN <<>>
    ELSE (IF visual_idx \in filtered_set
          THEN <<[kind |-> "Instance", idx |-> visual_idx]>> ELSE <<>>)
         \o member_rows(filtered_set, n - 1, visual_idx + 1)

\* App::visual_rows: group headers and instance rows as they appear on screen
RECURSIVE visual_rows_from(_, _, _)
visual_rows_from(a, k, visual_idx) ==
    IF k > Len(a.grouped_instances) THEN <<>>
    ELSE LET group == a.grouped_instances[k]
             n == Len(group.instances)
             filtered_set == {a.filtered_instance_indices[i] :
                                 i \in 1..Len(a.filtered_instance_indices)}
             collapsed == is_collapsed(a, group)
             show_header == IF collapsed THEN TRUE
                            ELSE \E i \in 0..(n - 1) : (visual_idx + i) \in filtered_set
             header == [kind |-> "GroupHeader", key |-> group_key(group),
                        collapsed |-> collapsed, count |-> n]
         IN (IF show_header THEN <<header>> ELSE <<>>)
            \o (IF collapsed THEN visual_rows_from(a, k + 1, visual_idx)
                ELSE member_rows(filtered_set, n, visual_idx)
                     \o visual_rows_from(a, k + 1, visual_idx + n))

\* visual_rows that shows a header only for a group with a filtered member
RECURSIVE visual_rows_from_bare(_, _, _)
visual_rows_from_bare(a, k, visual_idx) ==
    IF k > Len(a.grouped_instances) THEN <<>>
    ELSE LET group == a.grouped_instances[k]
             n == Len(group.instances)
             filtered_set == {a.filtered_instance_indices[i] :
                                 i \in 1..Len(a.filtered_instance_indices)}
             collapsed == is_collapsed(a, group)
             show_header == ~collapsed
                            /\ \E i \in 0..(n - 1) : (visual_idx + i) \in filtered_set
             header == [kind |-> "GroupHeader", key |-> group_key(group),
                        collapsed |-> collapsed, count |-> n]
         IN (IF show_header THEN <<header>> ELSE <<>>)
            \o (IF collapsed THEN visual_rows_from_bare(a, k + 1, visual_idx)
                ELSE member_rows(filtered_set, n, visual_idx)
                     \o visual_rows_from_bare(a, k + 1, visual_idx + n))

visual_rows_bare(a) == visual_rows_from_bare(a, 1, 0)

visual_rows(a) == visual_rows_from(a, 1, 0)

----------------------------------------------------------------------------
(* Mutating methods of App (src/src/app.rs) and toggle_group_collapse       *)

\* App::set_error / App::clear_error
set_error(a, msg) == [a EXCEPT !.error_message = Some(msg)]
clear_error(a) == [a EXCEPT !.error_message = None]

\* the search predicate of update_search: name, version, loader or group label
\* contains the (lower-cased) query
instance_matches(instance, q) ==
    \/ contains(to_lowercase(instance.name), q)
    \/ contains(to_lowercase(instance.minecraft_version), q)
    \/ (IsSome(instance.mod_loader) /\ contains(to_lowercase(Unwrap(instance.mod_loader)), q))
    \/ (IsSome(instance.group) /\ contains(to_lowercase(Unwrap(instance.group)), q))

first_or_zero(s) == IF s = <<>> THEN 0 ELSE s[1]

\* update_search that compares with the query as typed, not lowercased
update_search_as_typed(a, query) ==
    LET vm == visible_members(a)
        fi == IF query = <<>> THEN range_to(visible_instance_count(a))
              ELSE SelectSeq(range_to(Len(vm)), LAMBDA i : instance_matches(vm[i + 1], query))
        fa == IF query = <<>> THEN range_to(Len(a.accounts))
              ELSE SelectSeq(range_to(Len(a.accounts)),
                             LAMBDA i : contains(to_lowercase(a.accounts[i + 1].username),
                                                 query))
    IN [a EXCEPT !.search_query = query,
                 !.filtered_instance_indices = fi,
                 !.filtered_account_indices = fa,
                 !.selected_instance_index = first_or_zero(fi),
                 !.selected_account_index = first_or_zero(fa)]

\* App::update_search
update_search(a, query) ==
    LET q == to_lowercase(query)
        vm == visible_members(a)
        fi == IF q = <<>> THEN range_to(visible_instance_count(a))
              ELSE SelectSeq(range_to(Len(vm)), LAMBDA i : instance_matches(vm[i + 1], q))
        fa == IF q = <<>> THEN range_to(Len(a.accounts))
              ELSE SelectSeq(range_to(Len(a.accounts)),
                             LAMBDA i : contains(to_lowercase(a.accounts[i + 1].username), q))
    IN [a EXCEPT !.search_query = q,
                 !.filtered_instance_indices = fi,
                 !.filtered_account_indices = fa,
                 !.selected_instance_index = first_or_zero(fi),
                 !.selected_account_index = first_or_zero(fa)]

\* App::clear_search
clear_search(a) == update_search(a, <<>>)

\* App::sort_and_group_instances
sort_and_group_instances(a) ==
    LET sorted == sort_by(a.sort_mode, a.sort_ascending, a.instances)
        grouped == group_instances(sorted)
        a1 == [a EXCEPT !.instances = sorted,
                        !.grouped_instances = grouped,
                        !.selected_group_index =
                            IF grouped # <<>> /\ @ >= Len(grouped) THEN Len(grouped) - 1 ELSE @]
    IN [a1 EXCEPT !.filtered_instance_indices = range_to(visible_instance_count(a1))]

\* toggle_group_collapse without the clamp of the selection: the selection
\* invariant depends on the clamp
toggle_group_collapse_unclamped(a, key) ==
    LET a1 == [a EXCEPT !.collapsed_groups =
                            IF key \in @ THEN @ \ {key} ELSE @ \cup {key}]
    IN [a1 EXCEPT !.filtered_instance_indices = range_to(visible_instance_count(a1))]

\* toggle_group_collapse without the reset of the filtered list: the list's
\* invariant depends on the reset
toggle_group_collapse_stale(a, key) ==
    LET a1 == [a EXCEPT !.collapsed_groups =
                            IF key \in @ THEN @ \ {key} ELSE @ \cup {key}]
        count == visible_instance_count(a1)
    IN [a1 EXCEPT !.selected_instance_index =
                      IF @ >= count THEN (IF count = 0 THEN 0 ELSE count - 1) ELSE @]

\* toggle_group_collapse (src/src/update.rs:1149-1160)
toggle_group_collapse(a, key) ==
    LET a1 == [a EXCEPT !.collapsed_groups =
                            IF key \in @ THEN @ \ {key} ELSE @ \cup {key}]
        count == visible_instance_count(a1)
    IN [a1 EXCEPT !.filtered_instance_indices = range_to(count),
                  !.selected_instance_index =
                      IF @ >= count THEN (IF count = 0 THEN 0 ELSE count - 1) ELSE @]

----------------------------------------------------------------------------
(* Data behind the external collaborators (files read by load_accounts,     *)
(* load_servers, load_log_entries and load_log_content)                     *)

\* accounts.json: "a" and the active account "Bb"
Accounts ==
    << [profile_id |-> "p1", username |-> <<97>>, is_active |-> FALSE],
       [profile_id |-> "p2", username |-> <<66, 98>>, is_active |-> TRUE] >>

\* servers.dat of each instance: a list of struct Server; "i5" has five servers
ServersDat(id) ==
    IF id = "i1"
    THEN << [name |-> <<72>>, ip |-> <<104>>], [name |-> <<76>>, ip |-> <<108>>] >>
    ELSE IF id = "i5"
    THEN << [name |-> <<65>>, ip |-> <<97>>], [name |-> <<66>>, ip |-> <<98>>],
            [name |-> <<67>>, ip |-> <<99>>], [name |-> <<68>>, ip |-> <<100>>],
            [name |-> <<69>>, ip |-> <<101>>] >>
    ELSE <<>>

\* the log files load_log_entries finds in a logs directory
LogEntries == <<"latest.log", "debug.log">>

\* the lines load_log_content reads: "ERROR a", "b", "INFO" in latest.log;
\* debug.log is empty
LogContentOf(entry) ==
    IF entry = "latest.log"
    THEN << <<69, 82, 82, 79, 82, 32, 97>>, <<98>>, <<73, 78, 70, 79>> >>
    ELSE <<>>

LevelText(level) ==
    CASE level = "Error" -> <<69, 82, 82, 79, 82>>
      [] level = "Warn" -> <<87, 65, 82, 78>>
      [] level = "Info" -> <<73, 78, 70, 79>>
      [] level = "Debug" -> <<68, 69, 66, 85, 71>>

\* detect_log_level (src/src/app.rs:679-691)
detect_log_level(line) ==
    IF contains(line, LevelText("Error")) THEN Some("Error")
    ELSE IF contains(line, LevelText("Warn")) THEN Some("Warn")
    ELSE IF contains(line, LevelText("Info")) THEN Some("Info")
    ELSE IF contains(line, LevelText("Debug")) THEN Some("Debug")
    ELSE None

\* App::filtered_log_content: the (index, line) pairs that pass the level filter
filtered_log_content(a) ==
    IF a.log_level_filter = {} THEN range_to(Len(a.log_content))
    ELSE SelectSeq(range_to(Len(a.log_content)),
                   LAMBDA i : LET level == detect_log_level(a.log_content[i + 1])
                              IN IsSome(level) => Unwrap(level) \in a.log_level_filter)

\* App::selected_account / App::selected_server
selected_account(a) ==
    IF a.selected_account_index < Len(a.accounts)
    THEN Some(a.accounts[a.selected_account_index + 1]) ELSE None

selected_server(a) ==
    IF a.selected_server_index < Len(a.servers)
    THEN Some(a.servers[a.selected_server_index + 1]) ELSE None

\* App::is_instance_running
is_instance_running(a, id) == id \in DOMAIN a.running_instances

\* HashMap::remove
map_remove(m, k) == [x \in (DOMAIN m) \ {k} |-> m[x]]

\* HashMap::insert
map_insert(m, k, v) == [x \in (DOMAIN m) \cup {k} |-> IF x = k THEN v ELSE m[x]]

\* Vec::remove(index), index from 0
vec_remove(s, index) == SubSeq(s, 1, index) \o SubSeq(s, index + 2, Len(s))

\* String::pop
str_pop(s) == IF s = <<>> THEN s ELSE SubSeq(s, 1, Len(s) - 1)

\* usize::saturating_sub
saturating_sub(x, y) == IF x >= y THEN x - y ELSE 0

min(x, y) == IF x <= y THEN x ELSE y

----------------------------------------------------------------------------
(* The update engine (src/src/update.rs): one operator per arm of update's  *)
(* match.  `a` is the App (with the call log), `env` the outcome of the     *)
(* external calls made while the message is handled: env.now is             *)
(* Instant::now(), env.launch_ok whether launch_instance succeeds,          *)
(* env.io_ok whether a file operation (load, save, open) succeeds and       *)
(* env.found the instances scan_java_processes matches to a process.        *)

\* Duration::from_millis(400), Duration::from_secs(2), Duration::from_secs(30)
DoubleClickWindow == 4
ScanPeriod == 20
LaunchGrace == 300

Msg(type) == [type |-> type]
MsgIdx(type, idx) == [type |-> type, idx |-> idx]
MsgChar(type, c) == [type |-> type, c |-> c]

RECURSIVE update(_, _, _)

\* scan_java_processes: instance id -> pid of a Java process whose command line
\* contains the instance's path
scan_java_processes(env) == env.found

\* The maps scan_java_processes can return for a process table (pid -> the first
\* instance whose path the command line of that Java process contains): every
\* matched instance gets the pid of one of its processes, the one the iteration
\* over the table's HashMap inserts last
scan_outcomes(processes) ==
    LET matched == {processes[p] : p \in DOMAIN processes}
    IN {found \in [matched -> DOMAIN processes] :
            \A id \in matched : processes[found[id]] = id}

\* poll_running_instances that treats an instance whose process is gone like
\* one that was never matched
poll_running_instances_patient(a, env) ==
    LET found_pids == scan_java_processes(env)
        ids == DOMAIN a.running_instances
        gave_up == {id \in ids :
                      /\ id \notin DOMAIN found_pids
                      /\ env.now - a.running_instances[id].launched_at > LaunchGrace}
    IN [a EXCEPT !.calls = @ \o <<"poll_running_instances">>
                             \o (IF gave_up # {} THEN <<"gave_up">> ELSE <<>>),
                 !.running_instances =
            [id \in ids \ gave_up |->
                IF id \in DOMAIN found_pids
                THEN [@[id] EXCEPT !.pid = Some(found_pids[id])]
                ELSE @[id]]]

\* poll_running_instances that gives up on an unmatched instance at once
poll_running_instances_hasty(a, env) ==
    LET found_pids == scan_java_processes(env)
        ids == DOMAIN a.running_instances
        exited == {id \in ids : /\ id \notin DOMAIN found_pids
                                /\ IsSome(a.running_instances[id].pid)}
        gave_up == {id \in ids : /\ id \notin DOMAIN found_pids
                                 /\ ~IsSome(a.running_instances[id].pid)}
    IN [a EXCEPT !.calls = @ \o <<"poll_running_instances">>
                             \o (IF exited # {} THEN <<"exited">> ELSE <<>>)
                             \o (IF gave_up # {} THEN <<"gave_up">> ELSE <<>>),
                 !.running_instances =
            [id \in ids \ (exited \cup gave_up) |->
                IF id \in DOMAIN found_pids
                THEN [@[id] EXCEPT !.pid = Some(found_pids[id])]
                ELSE @[id]]]

\* poll_running_instances (src/src/update.rs:1191-1211); calls records the scan
\* and which of its two eviction branches removed a record
poll_running_instances(a, env) ==
    LET found_pids == scan_java_processes(env)
        ids == DOMAIN a.running_instances
        exited == {id \in ids : /\ id \notin DOMAIN found_pids
                                /\ IsSome(a.running_instances[id].pid)}
        gave_up == {id \in ids :
                      /\ id \notin DOMAIN found_pids
                      /\ ~IsSome(a.running_instances[id].pid)
                      /\ env.now - a.running_instances[id].launched_at > LaunchGrace}
        to_remove == exited \cup gave_up
    IN [a EXCEPT !.calls = @ \o <<"poll_running_instances">>
                             \o (IF exited # {} THEN <<"exited">> ELSE <<>>)
                             \o (IF gave_up # {} THEN <<"gave_up">> ELSE <<>>),
                 !.running_instances =
            [id \in ids \ to_remove |->
                IF id \in DOMAIN found_pids
                THEN [@[id] EXCEPT !.pid = Some(found_pids[id])]
                ELSE @[id]]]

\* Tick that scans every two seconds whether or not an instance is running
on_Tick_always(a, env) ==
    IF env.now - a.last_process_scan >= ScanPeriod
    THEN poll_running_instances([a EXCEPT !.last_process_scan = env.now], env)
    ELSE a

\* Message::Tick (src/src/update.rs:18-25)
on_Tick(a, env) ==
    IF DOMAIN a.running_instances # {} /\ env.now - a.last_process_scan >= ScanPeriod
    THEN poll_running_instances([a EXCEPT !.last_process_scan = env.now], env)
    ELSE a

\* Message::SwitchToScreen
on_SwitchToScreen(a, screen, env) ==
    CASE screen = "Instances" -> [a EXCEPT !.screen = "Instances"]
      [] screen = "Accounts" -> update(a, Msg("OpenAccountScreen"), env)
      [] screen = "Servers" -> update(a, Msg("OpenServerScreen"), env)
      [] screen = "Logs" -> update(a, Msg("OpenInstanceLogs"), env)
      [] OTHER -> a

\* Message::SelectInstance
on_SelectInstance(a, idx) ==
    IF idx < visible_instance_count(a)
    THEN [a EXCEPT !.selected_instance_index = idx,
                   !.selected_group_index = group_index_for_instance(a, idx)]
    ELSE a

\* a launch that does not look at the running set
on_LaunchInstance_again(a, env) ==
    LET instance == selected_instance(a)
    IN IF ~IsSome(instance) THEN a
       ELSE LET b == [a EXCEPT !.launched = Append(@, Unwrap(instance).id)]
            IN IF ~env.launch_ok THEN set_error(b, "Launch failed")
               ELSE [b EXCEPT !.running_instances =
                        map_insert(@, Unwrap(instance).id,
                                   [pid |-> None, launched_at |-> env.now])]

\* Message::LaunchInstance
on_LaunchInstance(a, env) ==
    LET instance == selected_instance(a)
    IN IF ~IsSome(instance) THEN a
       ELSE IF is_instance_running(a, Unwrap(instance).id)
            THEN set_error(a, "Instance is already running")
       ELSE LET b == [a EXCEPT !.launched = Append(@, Unwrap(instance).id)]
            IN IF ~env.launch_ok THEN set_error(b, "Launch failed")
               ELSE [b EXCEPT !.running_instances =
                        map_insert(@, Unwrap(instance).id,
                                   [pid |-> None, launched_at |-> env.now])]

\* Message::KillInstance; calls records process.kill_with(Signal::Term): a bound
\* pid is the one the last scan found, so app.system.process(pid) is Some
on_KillInstance(a) ==
    LET instance == selected_instance(a)
    IN IF IsSome(instance)
       THEN LET id == Unwrap(instance).id
                signalled == /\ is_instance_running(a, id)
                             /\ IsSome(a.running_instances[id].pid)
            IN [a EXCEPT !.running_instances = map_remove(@, id),
                         !.calls = @ \o (IF signalled THEN <<"kill_with">> ELSE <<>>)]
       ELSE a

\* Message::OpenInstanceFolder
on_OpenInstanceFolder(a, env) ==
    IF IsSome(selected_instance(a)) /\ ~env.io_ok
    THEN set_error(a, "Failed to open folder") ELSE a

\* Message::OpenInstanceDetails
on_OpenInstanceDetails(a) ==
    IF IsSome(selected_instance(a))
    THEN [a EXCEPT !.previous_screen = Some(a.screen), !.screen = "InstanceDetails"]
    ELSE a

\* Message::SelectAccount
on_SelectAccount(a, idx) ==
    IF idx < Len(a.accounts) THEN [a EXCEPT !.selected_account_index = idx] ELSE a

\* Message::ConfirmAccountSelection
on_ConfirmAccountSelection(a) ==
    IF IsSome(selected_account(a))
    THEN [a EXCEPT !.active_account = selected_account(a), !.screen = "Instances"]
    ELSE a

\* Message::SelectServer
on_SelectServer(a, idx) ==
    IF idx < Len(a.servers) THEN [a EXCEPT !.selected_server_index = idx] ELSE a

\* Message::AddServer
on_AddServer(a) ==
    [a EXCEPT !.input_mode = "AddServerName", !.input_buffer = <<>>,
              !.edit_server_name = <<>>, !.edit_server_address = <<>>]

\* Message::EditServer
on_EditServer(a) ==
    IF IsSome(selected_server(a))
    THEN [a EXCEPT !.edit_server_name = Unwrap(selected_server(a)).name,
                   !.edit_server_address = Unwrap(selected_server(a)).ip,
                   !.input_buffer = Unwrap(selected_server(a)).name,
                   !.input_mode = "EditServerName"]
    ELSE a

\* Message::DeleteServer
on_DeleteServer(a) ==
    IF a.servers # <<>> THEN [a EXCEPT !.input_mode = "ConfirmDelete"] ELSE a

\* App::load_servers_for_instance; the result is Err when the load fails
load_servers_for_instance(a, env) ==
    IF IsSome(selected_instance(a)) /\ env.io_ok
    THEN [a EXCEPT !.servers = a.servers_dat[Unwrap(selected_instance(a)).id],
                   !.selected_server_index = 0]
    ELSE a

\* App::save_servers_for_instance followed by the caller's
\* `if let Err(e) = ... { app.set_error(...) }`
save_servers_for_instance(a, env) ==
    IF ~IsSome(selected_instance(a)) THEN a
    ELSE IF ~env.io_ok THEN set_error(a, "Failed to save servers")
    ELSE [a EXCEPT !.servers_dat[Unwrap(selected_instance(a)).id] = a.servers]

\* ConfirmDeleteServer that leaves selected_server_index where it was
on_ConfirmDeleteServer_unclamped(a, env) ==
    LET a1 == IF a.selected_server_index < Len(a.servers)
              THEN save_servers_for_instance(
                     [a EXCEPT !.servers = vec_remove(a.servers, a.selected_server_index)],
                     env)
              ELSE a
    IN [a1 EXCEPT !.input_mode = "Normal"]

\* Message::ConfirmDeleteServer
on_ConfirmDeleteServer(a, env) ==
    LET a1 == IF a.selected_server_index < Len(a.servers)
              THEN LET servers == vec_remove(a.servers, a.selected_server_index)
                       b == [a EXCEPT !.servers = servers,
                                      !.selected_server_index =
                                          IF servers = <<>> THEN 0
                                          ELSE IF @ >= Len(servers) THEN Len(servers) - 1
                                          ELSE @]
                   IN save_servers_for_instance(b, env)
              ELSE a
    IN [a1 EXCEPT !.input_mode = "Normal"]


\* Instance::set_server_join followed by the caller's error handling
set_server_join(a, flat_idx, enabled, address, env) ==
    IF ~env.io_ok THEN set_error(a, "Failed to update config")
    ELSE [a EXCEPT !.instances[flat_idx + 1].server_join =
                       Some([enabled |-> enabled, address |-> address])]

\* Message::SetJoinOnLaunch
on_SetJoinOnLaunch(a, env) ==
    IF IsSome(selected_server(a)) /\ IsSome(selected_instance(a))
    THEN LET server == Unwrap(selected_server(a))
             sj == Unwrap(selected_instance(a)).server_join
             currently_set == IsSome(sj) /\ Unwrap(sj).enabled /\ Unwrap(sj).address = server.ip
         IN set_server_join(a, Unwrap(flat_instance_index(a)), ~currently_set, server.ip, env)
    ELSE a

\* LaunchWithServer that records the instance as running before it looks at
\* the launcher's result
on_LaunchWithServer_optimistic(a, env) ==
    LET instance == selected_instance(a)
    IN IF ~(IsSome(instance) /\ IsSome(selected_server(a))) THEN a
       ELSE IF is_instance_running(a, Unwrap(instance).id)
            THEN set_error(a, "Instance is already running")
       ELSE LET b == [a EXCEPT !.launched = Append(@, Unwrap(instance).id),
                               !.running_instances =
                                   map_insert(@, Unwrap(instance).id,
                                              [pid |-> None, launched_at |-> env.now])]
            IN IF ~env.launch_ok THEN set_error(b, "Launch failed") ELSE b

\* Message::LaunchWithServer
on_LaunchWithServer(a, env) ==
    LET instance == selected_instance(a)
    IN IF ~(IsSome(instance) /\ IsSome(selected_server(a))) THEN a
       ELSE IF is_instance_running(a, Unwrap(instance).id)
            THEN set_error(a, "Instance is already running")
       ELSE LET b == [a EXCEPT !.launched = Append(@, Unwrap(instance).id)]
            IN IF ~env.launch_ok THEN set_error(b, "Launch failed")
               ELSE [b EXCEPT !.running_instances =
                        map_insert(@, Unwrap(instance).id,
                                   [pid |-> None, launched_at |-> env.now])]

\* Message::InputChar / Message::InputBackspace / Message::InputCancel
on_InputChar(a, c) == [a EXCEPT !.input_buffer = Append(@, c)]
on_InputBackspace(a) == [a EXCEPT !.input_buffer = str_pop(@)]
on_InputCancel(a) == [a EXCEPT !.input_buffer = <<>>, !.input_mode = "Normal"]

\* char::is_whitespace below U+0100: the ASCII white space, NEL and NO-BREAK SPACE
is_whitespace(c) == c \in {9, 10, 11, 12, 13, 32, 133, 160}

\* str::trim
RECURSIVE trim_start(_)
trim_start(s) == IF s # <<>> /\ is_whitespace(Head(s)) THEN trim_start(Tail(s)) ELSE s

RECURSIVE trim_end(_)
trim_end(s) ==
    IF s # <<>> /\ is_whitespace(s[Len(s)]) THEN trim_end(SubSeq(s, 1, Len(s) - 1)) ELSE s

trim(s) == trim_end(trim_start(s))

\* the value of a string of decimal digits
RECURSIVE digits_value(_)
digits_value(s) ==
    IF s = <<>> THEN 0 ELSE 10 * digits_value(SubSeq(s, 1, Len(s) - 1)) + (s[Len(s)] - 48)

\* str::parse::<u16>().is_ok(): an optional '+', then one or more digits, at most 65535
parses_as_u16(s) ==
    LET digits == IF s # <<>> /\ Head(s) = 43 THEN Tail(s) ELSE s
    IN /\ digits # <<>>
       /\ \A i \in 1..Len(digits) : digits[i] >= 48 /\ digits[i] <= 57
       /\ digits_value(digits) <= 65535

\* validate_server_address (src/src/update.rs:1163-1187): None for Ok(()), Some(e) for Err(e)
validate_server_address(address) ==
    IF address = <<>> THEN Some("Server address cannot be empty")
    ELSE IF \E i \in 1..Len(address) : address[i] = 32
         THEN Some("Server address cannot contain spaces")
    ELSE IF \E i \in 1..Len(address) : address[i] = 58
         THEN LET p == CHOOSE i \in 1..Len(address) :
                          /\ address[i] = 58
                          /\ \A j \in (i + 1)..Len(address) : address[j] # 58
                  port == SubSeq(address, p + 1, Len(address))
                  host == SubSeq(address, 1, p - 1)
              IN IF ~parses_as_u16(port) THEN Some("Invalid port number")
                 ELSE IF host = <<>> THEN Some("Server hostname cannot be empty")
                 ELSE None
    ELSE None

\* InputConfirm that closes the dialog when it rejects an empty name
on_InputConfirm_closing(a, env) ==
    CASE a.input_mode = "AddServerName" ->
           IF trim(a.input_buffer) = <<>>
           THEN [set_error(a, "Server name cannot be empty")
                    EXCEPT !.input_buffer = <<>>, !.input_mode = "Normal"]
           ELSE [a EXCEPT !.edit_server_name = trim(a.input_buffer),
                          !.input_buffer = <<>>,
                          !.input_mode = "AddServerAddress"]
      [] a.input_mode = "AddServerAddress" ->
           LET address == trim(a.input_buffer)
           IN IF IsSome(validate_server_address(address))
              THEN set_error(a, Unwrap(validate_server_address(address)))
              ELSE LET b == [a EXCEPT !.edit_server_address = address,
                                      !.servers = Append(@, [name |-> a.edit_server_name,
                                                             ip |-> address])]
                   IN [save_servers_for_instance(b, env)
                         EXCEPT !.input_buffer = <<>>, !.input_mode = "Normal"]
      [] a.input_mode = "EditServerName" ->
           IF trim(a.input_buffer) = <<>>
           THEN [set_error(a, "Server name cannot be empty")
                    EXCEPT !.input_buffer = <<>>, !.input_mode = "Normal"]
           ELSE [a EXCEPT !.edit_server_name = trim(a.input_buffer),
                          !.input_buffer = a.edit_server_address,
                          !.input_mode = "EditServerAddress"]
      [] a.input_mode = "EditServerAddress" ->
           LET address == trim(a.input_buffer)
           IN IF IsSome(validate_server_address(address))
              THEN set_error(a, Unwrap(validate_server_address(address)))
              ELSE LET b == [a EXCEPT !.edit_server_address = address]
                       c == IF a.selected_server_index < Len(a.servers)
                            THEN save_servers_for_instance(
                                   [b EXCEPT !.servers[a.selected_server_index + 1] =
                                                 [name |-> a.edit_server_name, ip |-> address]],
                                   env)
                            ELSE b
                   IN [c EXCEPT !.input_buffer = <<>>, !.input_mode = "Normal"]
      [] OTHER -> a

\* Message::InputConfirm
on_InputConfirm(a, env) ==
    CASE a.input_mode = "AddServerName" ->
           IF trim(a.input_buffer) = <<>> THEN set_error(a, "Server name cannot be empty")
           ELSE [a EXCEPT !.edit_server_name = trim(a.input_buffer),
                          !.input_buffer = <<>>,
                          !.input_mode = "AddServerAddress"]
      [] a.input_mode = "AddServerAddress" ->
           LET address == trim(a.input_buffer)
           IN IF IsSome(validate_server_address(address))
              THEN set_error(a, Unwrap(validate_server_address(address)))
              ELSE LET b == [a EXCEPT !.edit_server_address = address,
                                      !.servers = Append(@, [name |-> a.edit_server_name,
                                                             ip |-> address])]
                   IN [save_servers_for_instance(b, env)
                         EXCEPT !.input_buffer = <<>>, !.input_mode = "Normal"]
      [] a.input_mode = "EditServerName" ->
           IF trim(a.input_buffer) = <<>> THEN set_error(a, "Server name cannot be empty")
           ELSE [a EXCEPT !.edit_server_name = trim(a.input_buffer),
                          !.input_buffer = a.edit_server_address,
                          !.input_mode = "EditServerAddress"]
      [] a.input_mode = "EditServerAddress" ->
           LET address == trim(a.input_buffer)
           IN IF IsSome(validate_server_address(address))
              THEN set_error(a, Unwrap(validate_server_address(address)))
              ELSE LET b == [a EXCEPT !.edit_server_address = address]
                       c == IF a.selected_server_index < Len(a.servers)
                            THEN save_servers_for_instance(
                                   [b EXCEPT !.servers[a.selected_server_index + 1] =
                                                 [name |-> a.edit_server_name, ip |-> address]],
                                   env)
                            ELSE b
                   IN [c EXCEPT !.input_buffer = <<>>, !.input_mode = "Normal"]
      [] OTHER -> a

\* Message::OpenAccountScreen
on_OpenAccountScreen(a) ==
    [a EXCEPT !.previous_screen = Some(a.screen), !.screen = "Accounts"]

\* Message::OpenServerScreen
on_OpenServerScreen(a, env) ==
    IF IsSome(selected_instance(a))
    THEN IF ~env.io_ok THEN set_error(a, "Failed to load servers")
         ELSE [load_servers_for_instance(a, env)
                 EXCEPT !.previous_screen = Some(a.screen), !.screen = "Servers"]
    ELSE a

\* Message::OpenHelp
on_OpenHelp(a) ==
    [a EXCEPT !.previous_screen = Some(a.screen), !.help_scroll_offset = 0,
              !.screen = "Help"]

\* Back that leaves the remembered screen in the slot: the one-slot memory
\* depends on take()
on_Back_keeping(a) ==
    IF IsSome(a.previous_screen)
    THEN [a EXCEPT !.screen = Unwrap(a.previous_screen)]
    ELSE [a EXCEPT !.screen = "Instances"]

\* Message::Back
on_Back(a) ==
    IF IsSome(a.previous_screen)
    THEN [a EXCEPT !.screen = Unwrap(a.previous_screen), !.previous_screen = None]
    ELSE [a EXCEPT !.screen = "Instances"]

\* the Ok arm shared by Message::OpenInstanceLogs and Message::OpenLauncherLogs
open_logs(a, source) ==
    [a EXCEPT !.log_entries = LogEntries,
              !.selected_log_index = 0,
              !.log_content = <<>>,
              !.log_scroll_offset = 0,
              !.log_source = source,
              !.log_search_query = <<>>,
              !.log_search_matches = <<>>,
              !.log_level_filter = {},
              !.previous_screen = Some(a.screen),
              !.screen = "Logs"]

\* Message::OpenInstanceLogs
on_OpenInstanceLogs(a, env) ==
    IF IsSome(selected_instance(a))
    THEN IF env.io_ok THEN open_logs(a, "Instance") ELSE set_error(a, "Failed to load logs")
    ELSE a

\* Message::OpenLauncherLogs
on_OpenLauncherLogs(a, env) ==
    IF env.io_ok THEN open_logs(a, "Launcher") ELSE set_error(a, "Failed to load logs")


\* App::update_log_search
update_log_search(a) ==
    LET query == to_lowercase(a.log_search_query)
        matches == IF a.log_search_query = <<>> THEN <<>>
                   ELSE SelectSeq(range_to(Len(a.log_content)),
                                  LAMBDA i : contains(to_lowercase(a.log_content[i + 1]), query))
    IN [a EXCEPT !.log_search_matches = matches,
                 !.log_search_current = 0,
                 !.log_scroll_offset = IF matches # <<>> THEN matches[1] ELSE @]

\* App::log_search_next
log_search_next(a) ==
    IF a.log_search_matches = <<>> THEN a
    ELSE LET current == (a.log_search_current + 1) % Len(a.log_search_matches)
         IN [a EXCEPT !.log_search_current = current,
                      !.log_scroll_offset = a.log_search_matches[current + 1]]

\* App::log_search_prev
log_search_prev(a) ==
    IF a.log_search_matches = <<>> THEN a
    ELSE LET current == IF a.log_search_current = 0 THEN Len(a.log_search_matches) - 1
                        ELSE a.log_search_current - 1
         IN [a EXCEPT !.log_search_current = current,
                      !.log_scroll_offset = a.log_search_matches[current + 1]]

\* Message::SelectLog
on_SelectLog(a, idx) ==
    IF idx < Len(a.log_entries)
    THEN [a EXCEPT !.selected_log_index = idx, !.log_content = <<>>, !.log_scroll_offset = 0]
    ELSE a

\* Message::LoadLogContent
on_LoadLogContent(a, env) ==
    IF a.selected_log_index < Len(a.log_entries)
    THEN IF env.io_ok
         THEN LET b == [a EXCEPT !.log_content = LogContentOf(a.log_entries[a.selected_log_index + 1]),
                                 !.log_scroll_offset = 0]
              IN IF b.log_search_query # <<>> THEN update_log_search(b) ELSE b
         ELSE set_error(a, "Failed to load log content")
    ELSE a

\* Message::ScrollLogUp / Message::ScrollLogDown
on_ScrollLogUp(a, amount) ==
    [a EXCEPT !.log_scroll_offset = saturating_sub(@, amount)]

on_ScrollLogDown(a, amount) ==
    [a EXCEPT !.log_scroll_offset =
                  min(@ + amount, saturating_sub(Len(filtered_log_content(a)), 1))]

\* Message::OpenLogInEditor / Message::OpenLogFolder
on_OpenLogInEditor(a, env) ==
    IF a.selected_log_index < Len(a.log_entries) /\ ~env.io_ok
    THEN set_error(a, "Failed to open editor") ELSE a

on_OpenLogFolder(a, env) ==
    IF a.selected_log_index < Len(a.log_entries) /\ ~env.io_ok
    THEN set_error(a, "Failed to open folder") ELSE a

\* Message::StartLogSearch
on_StartLogSearch(a) ==
    [a EXCEPT !.input_mode = "LogSearch", !.log_search_query = <<>>,
              !.log_search_matches = <<>>, !.log_search_current = 0]

\* Message::LogSearchChar / Message::LogSearchBackspace
on_LogSearchChar(a, c) == update_log_search([a EXCEPT !.log_search_query = Append(@, c)])
on_LogSearchBackspace(a) == update_log_search([a EXCEPT !.log_search_query = str_pop(@)])

\* Message::LogSearchConfirm / Message::LogSearchCancel
on_LogSearchConfirm(a) == [a EXCEPT !.input_mode = "Normal"]

on_LogSearchCancel(a) ==
    [a EXCEPT !.log_search_query = <<>>, !.log_search_matches = <<>>,
              !.log_search_current = 0, !.input_mode = "Normal"]

\* Message::ToggleLogLevel / Message::ShowAllLogLevels
on_ToggleLogLevel(a, level) ==
    [a EXCEPT !.log_level_filter = IF level \in @ THEN @ \ {level} ELSE @ \cup {level}]

on_ShowAllLogLevels(a) == [a EXCEPT !.log_level_filter = {}]

\* Message::StartSearch
on_StartSearch(a) == [a EXCEPT !.input_mode = "Search", !.input_buffer = <<>>]

\* Message::SearchChar / Message::SearchBackspace
on_SearchChar(a, c) ==
    LET b == [a EXCEPT !.input_buffer = Append(@, c)] IN update_search(b, b.input_buffer)

on_SearchBackspace(a) ==
    LET b == [a EXCEPT !.input_buffer = str_pop(@)] IN update_search(b, b.input_buffer)

\* Message::SearchConfirm / Message::SearchCancel
on_SearchConfirm(a) == [a EXCEPT !.input_mode = "Normal"]

on_SearchCancel(a) ==
    [clear_search([a EXCEPT !.input_buffer = <<>>]) EXCEPT !.input_mode = "Normal"]

\* the tail shared by Message::CycleSortMode and Message::ToggleSortDirection
\* (App::save_config writes the preference file and changes no state)
resort(a) ==
    LET b == [sort_and_group_instances(a) EXCEPT !.selected_instance_index = 0]
    IN [b EXCEPT !.selected_group_index = group_index_for_instance(b, 0)]

\* Message::CycleSortMode
on_CycleSortMode(a) == resort([a EXCEPT !.sort_mode = SortMode_next(@)])

\* Message::ToggleSortDirection
on_ToggleSortDirection(a) == resort([a EXCEPT !.sort_ascending = ~@])

\* Message::ToggleGroupCollapse
on_ToggleGroupCollapse(a) ==
    IF IsSome(selected_group_key(a))
    THEN toggle_group_collapse(a, Unwrap(selected_group_key(a))) ELSE a

\* the tail shared by Message::NextGroup and Message::PrevGroup
jump_to_group(a, group_idx) ==
    LET b == [a EXCEPT !.selected_group_index = group_idx]
    IN IF IsSome(first_instance_in_group(b, group_idx))
       THEN [b EXCEPT !.selected_instance_index = Unwrap(first_instance_in_group(b, group_idx))]
       ELSE b

\* NextGroup that stops at the last group instead of wrapping
on_NextGroup_stopping(a) ==
    LET count == Len(a.grouped_instances)
    IN IF count > 0
       THEN jump_to_group(a, IF a.selected_group_index + 1 >= count THEN count - 1
                             ELSE a.selected_group_index + 1)
       ELSE a

\* Message::NextGroup
on_NextGroup(a) ==
    LET count == Len(a.grouped_instances)
    IN IF count > 0 THEN jump_to_group(a, (a.selected_group_index + 1) % count) ELSE a

\* Message::PrevGroup
on_PrevGroup(a) ==
    LET count == Len(a.grouped_instances)
    IN IF count > 0
       THEN jump_to_group(a, IF a.selected_group_index = 0 THEN count - 1
                             ELSE a.selected_group_index - 1)
       ELSE a

\* Message::ScrollHelpUp / Message::ScrollHelpDown
on_ScrollHelpUp(a) == [a EXCEPT !.help_scroll_offset = saturating_sub(@, 1)]
on_ScrollHelpDown(a) == [a EXCEPT !.help_scroll_offset = @ + 1]

\* Message::Quit
on_Quit(a) == [a EXCEPT !.running = FALSE]

----------------------------------------------------------------------------
(* Key handling (handle_key and the per-screen handlers)                    *)

\* KeyCode values: Char(c) and the named keys
Char(c) == [k |-> "Char", c |-> c]
Key(k) == [k |-> k, c |-> 0]
IsChar(code, c) == code.k = "Char" /\ code.c = c

\* slice::get(i) and Iterator::position, indices from 0
seq_get(s, i) == IF i >= 0 /\ i < Len(s) THEN Some(s[i + 1]) ELSE None
seq_first(s) == seq_get(s, 0)
seq_last(s) == seq_get(s, Len(s) - 1)
seq_position(s, x) ==
    IF \E p \in 1..Len(s) : s[p] = x
    THEN Some((CHOOSE p \in 1..Len(s) : s[p] = x /\ \A q \in 1..(p - 1) : s[q] # x) - 1)
    ELSE None

\* a next element that stops at the last one
next_filtered_stopping(list, selected) ==
    LET pos == seq_position(list, selected)
        nxt == IF IsSome(pos) THEN seq_get(list, Unwrap(pos) + 1) ELSE None
    IN IF IsSome(nxt) THEN nxt ELSE IF IsSome(pos) THEN Some(selected) ELSE seq_first(list)

\* find_filtered_pos(..).and_then(|pos| list.get(pos + 1)).or_else(|| list.first())
next_filtered(list, selected) ==
    LET pos == seq_position(list, selected)
        nxt == IF IsSome(pos) THEN seq_get(list, Unwrap(pos) + 1) ELSE None
    IN IF IsSome(nxt) THEN nxt ELSE seq_first(list)

\* find_filtered_pos(..).filter(|pos| pos > 0).and_then(|pos| list.get(pos - 1))
\*     .or_else(|| list.first())
prev_filtered(list, selected) ==
    LET pos == seq_position(list, selected)
        prv == IF IsSome(pos) /\ Unwrap(pos) > 0 THEN seq_get(list, Unwrap(pos) - 1) ELSE None
    IN IF IsSome(prv) THEN prv ELSE seq_first(list)

\* the `match code` of handle_instances_key (src/src/update.rs:867-947)
instances_key_bindings(a, code, env) ==
    CASE IsChar(code, 106) \/ code.k = "Down" ->
           LET next_idx == next_filtered(a.filtered_instance_indices, a.selected_instance_index)
           IN IF IsSome(next_idx) THEN update(a, MsgIdx("SelectInstance", Unwrap(next_idx)), env)
              ELSE a
      [] IsChar(code, 107) \/ code.k = "Up" ->
           LET prev_idx == prev_filtered(a.filtered_instance_indices, a.selected_instance_index)
           IN IF IsSome(prev_idx) THEN update(a, MsgIdx("SelectInstance", Unwrap(prev_idx)), env)
              ELSE a
      [] IsChar(code, 103) -> [a EXCEPT !.pending_key = Some(103)]
      [] IsChar(code, 71) \/ code.k = "End" ->
           IF IsSome(seq_last(a.filtered_instance_indices))
           THEN update(a, MsgIdx("SelectInstance", Unwrap(seq_last(a.filtered_instance_indices))),
                       env)
           ELSE a
      [] code.k = "Home" ->
           IF IsSome(seq_first(a.filtered_instance_indices))
           THEN update(a, MsgIdx("SelectInstance", Unwrap(seq_first(a.filtered_instance_indices))),
                       env)
           ELSE a
      [] IsChar(code, 108) \/ code.k = "Enter" \/ code.k = "Right" ->
           update(a, Msg("LaunchInstance"), env)
      [] IsChar(code, 120) -> update(a, Msg("KillInstance"), env)
      [] IsChar(code, 76) -> update(a, Msg("OpenInstanceLogs"), env)
      [] IsChar(code, 115) -> update(a, Msg("OpenServerScreen"), env)
      [] IsChar(code, 83) -> update(a, Msg("CycleSortMode"), env)
      [] IsChar(code, 82) -> update(a, Msg("ToggleSortDirection"), env)
      [] IsChar(code, 97) -> update(a, Msg("OpenAccountScreen"), env)
      [] IsChar(code, 105) -> update(a, Msg("OpenInstanceDetails"), env)
      [] IsChar(code, 111) -> update(a, Msg("OpenInstanceFolder"), env)
      [] code.k = "Tab" -> update(a, Msg("ToggleGroupCollapse"), env)
      [] IsChar(code, 47) -> update(a, Msg("StartSearch"), env)
      [] code.k = "Esc" ->
           IF a.search_query # <<>> THEN update(a, Msg("SearchCancel"), env) ELSE a
      [] IsChar(code, 63) -> update(a, Msg("OpenHelp"), env)
      [] IsChar(code, 113) -> update(a, Msg("Quit"), env)
      [] OTHER -> a

\* handle_instances_key (src/src/update.rs:828-948)
handle_instances_key(a, code, ctrl, env) ==
    IF ctrl /\ (IsChar(code, 106) \/ code.k = "Down") THEN update(a, Msg("NextGroup"), env)
    ELSE IF ctrl /\ (IsChar(code, 107) \/ code.k = "Up") THEN update(a, Msg("PrevGroup"), env)
    ELSE IF IsSome(a.pending_key)
    THEN LET pending == Unwrap(a.pending_key)
             b == [a EXCEPT !.pending_key = None]
         IN IF pending = 103 /\ IsChar(code, 108) THEN update(b, Msg("OpenLauncherLogs"), env)
            ELSE instances_key_bindings(
                   IF pending = 103 /\ IsSome(seq_first(b.filtered_instance_indices))
                   THEN update(b, MsgIdx("SelectInstance",
                                         Unwrap(seq_first(b.filtered_instance_indices))), env)
                   ELSE b,
                   code, env)
    ELSE instances_key_bindings(a, code, env)

\* handle_accounts_key
handle_accounts_key(a, code, env) ==
    CASE IsChar(code, 106) \/ code.k = "Down" ->
           LET next_idx == next_filtered(a.filtered_account_indices, a.selected_account_index)
           IN IF IsSome(next_idx) THEN update(a, MsgIdx("SelectAccount", Unwrap(next_idx)), env)
              ELSE a
      [] IsChar(code, 107) \/ code.k = "Up" ->
           LET prev_idx == prev_filtered(a.filtered_account_indices, a.selected_account_index)
           IN IF IsSome(prev_idx) THEN update(a, MsgIdx("SelectAccount", Unwrap(prev_idx)), env)
              ELSE a
      [] IsChar(code, 108) \/ code.k = "Enter" \/ code.k = "Right" ->
           update(a, Msg("ConfirmAccountSelection"), env)
      [] IsChar(code, 104) \/ code.k = "Esc" \/ code.k = "Left" -> update(a, Msg("Back"), env)
      [] IsChar(code, 47) -> update(a, Msg("StartSearch"), env)
      [] IsChar(code, 113) -> update(a, Msg("Quit"), env)
      [] OTHER -> a

\* handle_servers_key
handle_servers_key(a, code, env) ==
    CASE IsChar(code, 106) \/ code.k = "Down" ->
           IF Len(a.servers) > 0 /\ a.selected_server_index + 1 < Len(a.servers)
           THEN update(a, MsgIdx("SelectServer", a.selected_server_index + 1), env) ELSE a
      [] IsChar(code, 107) \/ code.k = "Up" ->
           IF a.selected_server_index > 0
           THEN update(a, MsgIdx("SelectServer", a.selected_server_index - 1), env) ELSE a
      [] IsChar(code, 108) \/ code.k = "Enter" \/ code.k = "Right" ->
           update(a, Msg("LaunchWithServer"), env)
      [] IsChar(code, 97) -> update(a, Msg("AddServer"), env)
      [] IsChar(code, 101) -> update(a, Msg("EditServer"), env)
      [] IsChar(code, 100) -> update(a, Msg("DeleteServer"), env)
      [] IsChar(code, 74) -> update(a, Msg("SetJoinOnLaunch"), env)
      [] IsChar(code, 104) \/ code.k = "Esc" \/ code.k = "Left" -> update(a, Msg("Back"), env)
      [] IsChar(code, 113) -> update(a, Msg("Quit"), env)
      [] OTHER -> a

\* handle_details_key
handle_details_key(a, code, env) ==
    CASE IsChar(code, 104) \/ code.k = "Esc" \/ code.k = "Left" -> update(a, Msg("Back"), env)
      [] IsChar(code, 111) -> update(a, Msg("OpenInstanceFolder"), env)
      [] IsChar(code, 113) -> update(a, Msg("Quit"), env)
      [] OTHER -> a

\* handle_help_key
handle_help_key(a, code, env) ==
    CASE code.k = "Esc" \/ IsChar(code, 113) \/ IsChar(code, 63) -> update(a, Msg("Back"), env)
      [] IsChar(code, 106) \/ code.k = "Down" -> update(a, Msg("ScrollHelpDown"), env)
      [] IsChar(code, 107) \/ code.k = "Up" -> update(a, Msg("ScrollHelpUp"), env)
      [] OTHER -> a

\* handle_logs_key
handle_logs_key(a, code, env) ==
    CASE IsChar(code, 106) \/ code.k = "Down" ->
           IF Len(a.log_entries) > 0 /\ a.selected_log_index + 1 < Len(a.log_entries)
           THEN update(a, MsgIdx("SelectLog", a.selected_log_index + 1), env) ELSE a
      [] IsChar(code, 107) \/ code.k = "Up" ->
           IF a.selected_log_index > 0
           THEN update(a, MsgIdx("SelectLog", a.selected_log_index - 1), env) ELSE a
      [] IsChar(code, 108) \/ code.k = "Enter" \/ code.k = "Right" ->
           update(a, Msg("LoadLogContent"), env)
      [] IsChar(code, 74) \/ code.k = "PageDown" -> update(a, MsgIdx("ScrollLogDown", 10), env)
      [] IsChar(code, 75) \/ code.k = "PageUp" -> update(a, MsgIdx("ScrollLogUp", 10), env)
      [] IsChar(code, 47) -> update(a, Msg("StartLogSearch"), env)
      [] IsChar(code, 110) -> update(a, Msg("LogSearchNext"), env)
      [] IsChar(code, 78) -> update(a, Msg("LogSearchPrev"), env)
      [] IsChar(code, 49) -> update(a, MsgChar("ToggleLogLevel", "Error"), env)
      [] IsChar(code, 50) -> update(a, MsgChar("ToggleLogLevel", "Warn"), env)
      [] IsChar(code, 51) -> update(a, MsgChar("ToggleLogLevel", "Info"), env)
      [] IsChar(code, 52) -> update(a, MsgChar("ToggleLogLevel", "Debug"), env)
      [] IsChar(code, 48) -> update(a, Msg("ShowAllLogLevels"), env)
      [] IsChar(code, 101) -> update(a, Msg("OpenLogInEditor"), env)
      [] IsChar(code, 111) -> update(a, Msg("OpenLogFolder"), env)
      [] IsChar(code, 104) \/ code.k = "Esc" \/ code.k = "Left" -> update(a, Msg("Back"), env)
      [] IsChar(code, 113) -> update(a, Msg("Quit"), env)
      [] OTHER -> a

\* a handle_key that applies the screen's bindings in every input mode
handle_key_unrouted(a, code, ctrl, env) ==
    CASE a.screen = "Instances" -> handle_instances_key(a, code, ctrl, env)
      [] a.screen = "Accounts" -> handle_accounts_key(a, code, env)
      [] a.screen = "Servers" -> handle_servers_key(a, code, env)
      [] a.screen = "Logs" -> handle_logs_key(a, code, env)
      [] a.screen = "InstanceDetails" -> handle_details_key(a, code, env)
      [] a.screen = "Help" -> handle_help_key(a, code, env)

\* handle_key (src/src/update.rs:548-595)
handle_key(a, code, ctrl, env) ==
    IF a.input_mode # "Normal"
    THEN CASE a.input_mode = "Search" ->
                CASE code.k = "Char" -> update(a, MsgChar("SearchChar", code.c), env)
                  [] code.k = "Backspace" -> update(a, Msg("SearchBackspace"), env)
                  [] code.k = "Enter" -> update(a, Msg("SearchConfirm"), env)
                  [] code.k = "Esc" -> update(a, Msg("SearchCancel"), env)
                  [] OTHER -> a
           [] a.input_mode = "LogSearch" ->
                CASE code.k = "Char" -> update(a, MsgChar("LogSearchChar", code.c), env)
                  [] code.k = "Backspace" -> update(a, Msg("LogSearchBackspace"), env)
                  [] code.k = "Enter" -> update(a, Msg("LogSearchConfirm"), env)
                  [] code.k = "Esc" -> update(a, Msg("LogSearchCancel"), env)
                  [] OTHER -> a
           [] a.input_mode = "ConfirmDelete" ->
                CASE IsChar(code, 121) \/ IsChar(code, 89) ->
                       update(a, Msg("ConfirmDeleteServer"), env)
                  [] IsChar(code, 110) \/ IsChar(code, 78) \/ code.k = "Esc" ->
                       update(a, Msg("InputCancel"), env)
                  [] OTHER -> a
           [] OTHER ->
                CASE code.k = "Char" -> update(a, MsgChar("InputChar", code.c), env)
                  [] code.k = "Backspace" -> update(a, Msg("InputBackspace"), env)
                  [] code.k = "Enter" -> update(a, Msg("InputConfirm"), env)
                  [] code.k = "Esc" -> update(a, Msg("InputCancel"), env)
                  [] OTHER -> a
    ELSE CASE a.screen = "Instances" -> handle_instances_key(a, code, ctrl, env)
           [] a.screen = "Accounts" -> handle_accounts_key(a, code, env)
           [] a.screen = "Servers" -> handle_servers_key(a, code, env)
           [] a.screen = "Logs" -> handle_logs_key(a, code, env)
           [] a.screen = "InstanceDetails" -> handle_details_key(a, code, env)
           [] a.screen = "Help" -> handle_help_key(a, code, env)

----------------------------------------------------------------------------
(* Mouse handling (handle_mouse)                                            *)

Rect(x, y, width, height) == [x |-> x, y |-> y, width |-> width, height |-> height]
Region(rect, action) == [rect |-> rect, action |-> action]
Action(kind) == [kind |-> kind]
ActionIdx(kind, idx) == [kind |-> kind, idx |-> idx]
ActionKey(kind, key) == [kind |-> kind, key |-> key]
ActionMsg(kind, msg) == [kind |-> kind, msg |-> msg]

rect_contains(rect, col, row) ==
    /\ col >= rect.x
    /\ col < rect.x + rect.width
    /\ row >= rect.y
    /\ row < rect.y + rect.height

\* the lookup scanning in registration order, so that the first registered
\* region wins: the z-order of the overlays depends on the reverse scan
RECURSIVE find_region_forward(_, _, _)
find_region_forward(regions, col, row) ==
    IF regions = <<>> THEN None
    ELSE IF rect_contains(Head(regions).rect, col, row) THEN Some(Head(regions).action)
         ELSE find_region_forward(Tail(regions), col, row)

\* click_regions.iter().rev().find(|r| rect_contains(r.rect, col, row)).map(|r| r.action)
RECURSIVE find_region(_, _, _)
find_region(regions, col, row) ==
    IF regions = <<>> THEN None
    ELSE IF rect_contains(regions[Len(regions)].rect, col, row)
         THEN Some(regions[Len(regions)].action)
         ELSE find_region(SubSeq(regions, 1, Len(regions) - 1), col, row)

\* update(SelectX(idx)); if is_double_click { update(activate) }
select_then(a, select, activate, is_double_click, env) ==
    LET b == update(a, select, env)
    IN IF is_double_click THEN update(b, Msg(activate), env) ELSE b

\* the `match target` of the left-press arm (src/src/update.rs:625-689)
dispatch_click(a, target, is_double_click, env) ==
    IF target = None THEN a
    ELSE LET action == Unwrap(target)
         IN CASE action.kind = "SwitchTab" ->
                   CASE action.idx = 0 ->
                          update(a, [type |-> "SwitchToScreen", screen |-> "Instances"], env)
                     [] action.idx = 1 ->
                          update(a, [type |-> "SwitchToScreen", screen |-> "Accounts"], env)
                     [] action.idx = 2 ->
                          update(a, [type |-> "SwitchToScreen", screen |-> "Servers"], env)
                     [] action.idx = 3 ->
                          update(a, [type |-> "SwitchToScreen", screen |-> "Logs"], env)
                     [] OTHER -> a
              [] action.kind = "SelectItem" ->
                   CASE a.screen = "Instances" ->
                          select_then(a, MsgIdx("SelectInstance", action.idx), "LaunchInstance",
                                      is_double_click, env)
                     [] a.screen = "Accounts" ->
                          select_then(a, MsgIdx("SelectAccount", action.idx),
                                      "ConfirmAccountSelection", is_double_click, env)
                     [] a.screen = "Servers" ->
                          select_then(a, MsgIdx("SelectServer", action.idx), "LaunchWithServer",
                                      is_double_click, env)
                     [] OTHER -> a
              [] action.kind = "GroupHeader" -> toggle_group_collapse(a, action.key)
              [] action.kind = "FooterAction" -> update(a, action.msg, env)
              [] action.kind = "JoinCheckbox" -> update(a, Msg("SetJoinOnLaunch"), env)
              [] action.kind = "GoBack" -> update(a, Msg("Back"), env)
              [] action.kind = "DismissOverlay" ->
                   IF a.screen = "Help" THEN update(a, Msg("Back"), env)
                   ELSE IF IsSome(a.error_message) THEN clear_error(a)
                   ELSE IF a.input_mode # "Normal" THEN update(a, Msg("InputCancel"), env)
                   ELSE a
              [] action.kind = "SelectLogFile" ->
                   select_then(a, MsgIdx("SelectLog", action.idx), "LoadLogContent",
                               is_double_click, env)
              [] action.kind \in {"ScrollLogPreview", "Noop"} -> a

\* the double-click test without the comparison of the position: the
\* double-click rule depends on it
is_double_click_anywhere(a, col, row, now) ==
    /\ IsSome(a.last_click_time)
    /\ now - Unwrap(a.last_click_time) < DoubleClickWindow

\* let is_double_click = ... (src/src/update.rs:609-613)
is_double_click(a, col, row, now) ==
    /\ IsSome(a.last_click_time)
    /\ now - Unwrap(a.last_click_time) < DoubleClickWindow
    /\ a.last_click_pos = <<col, row>>

\* MouseEventKind::Down(MouseButton::Left) (src/src/update.rs:606-690);
\* `target` keeps the value of the local variable of that name
mouse_down_left(a, col, row, env) ==
    LET target == find_region(a.click_regions, col, row)
        b == [a EXCEPT !.last_click_time = Some(env.now),
                       !.last_click_pos = <<col, row>>,
                       !.target = target,
                       !.pressed = Some([target |-> target, screen |-> a.screen])]
    IN dispatch_click(b, target, is_double_click(a, col, row, env.now), env)

\* .find(..).map(|r| matches!(r.action, kind)).unwrap_or(false)
over_region(a, col, row, kind) ==
    LET hit == find_region(a.click_regions, col, row)
    IN IsSome(hit) /\ Unwrap(hit).kind = kind

\* position(..).filter(|pos| pos > 0).and_then(|pos| list.get(pos - 1))
scroll_prev(list, selected) ==
    LET pos == seq_position(list, selected)
    IN IF IsSome(pos) /\ Unwrap(pos) > 0 THEN seq_get(list, Unwrap(pos) - 1) ELSE None

\* position(..).and_then(|pos| list.get(pos + 1))
scroll_next(list, selected) ==
    LET pos == seq_position(list, selected)
    IN IF IsSome(pos) THEN seq_get(list, Unwrap(pos) + 1) ELSE None

\* MouseEventKind::ScrollUp (src/src/update.rs:691-758)
mouse_scroll_up(a, col, row, env) ==
    IF a.screen = "Logs" /\ over_region(a, col, row, "ScrollLogPreview")
    THEN update(a, MsgIdx("ScrollLogUp", 3), env)
    ELSE IF a.screen = "Logs" /\ over_region(a, col, row, "SelectLogFile")
            /\ a.selected_log_index > 0
    THEN update(a, MsgIdx("SelectLog", a.selected_log_index - 1), env)
    ELSE CASE a.screen = "Instances" ->
                LET prev_idx == scroll_prev(a.filtered_instance_indices,
                                            a.selected_instance_index)
                IN IF IsSome(prev_idx)
                   THEN update(a, MsgIdx("SelectInstance", Unwrap(prev_idx)), env) ELSE a
           [] a.screen = "Accounts" ->
                LET prev_idx == scroll_prev(a.filtered_account_indices, a.selected_account_index)
                IN IF IsSome(prev_idx)
                   THEN update(a, MsgIdx("SelectAccount", Unwrap(prev_idx)), env) ELSE a
           [] a.screen = "Servers" ->
                IF a.selected_server_index > 0
                THEN update(a, MsgIdx("SelectServer", a.selected_server_index - 1), env) ELSE a
           [] a.screen = "Logs" ->
                IF a.log_content # <<>> THEN update(a, MsgIdx("ScrollLogUp", 3), env)
                ELSE IF a.selected_log_index > 0
                THEN update(a, MsgIdx("SelectLog", a.selected_log_index - 1), env) ELSE a
           [] a.screen = "Help" -> update(a, Msg("ScrollHelpUp"), env)
           [] OTHER -> a

\* MouseEventKind::ScrollDown (src/src/update.rs:759-823)
mouse_scroll_down(a, col, row, env) ==
    IF a.screen = "Logs" /\ over_region(a, col, row, "ScrollLogPreview")
    THEN update(a, MsgIdx("ScrollLogDown", 3), env)
    ELSE IF a.screen = "Logs" /\ over_region(a, col, row, "SelectLogFile")
            /\ a.selected_log_index + 1 < Len(a.log_entries)
    THEN update(a, MsgIdx("SelectLog", a.selected_log_index + 1), env)
    ELSE CASE a.screen = "Instances" ->
                LET next_idx == scroll_next(a.filtered_instance_indices,
                                            a.selected_instance_index)
                IN IF IsSome(next_idx)
                   THEN update(a, MsgIdx("SelectInstance", Unwrap(next_idx)), env) ELSE a
           [] a.screen = "Accounts" ->
                LET next_idx == scroll_next(a.filtered_account_indices, a.selected_account_index)
                IN IF IsSome(next_idx)
                   THEN update(a, MsgIdx("SelectAccount", Unwrap(next_idx)), env) ELSE a
           [] a.screen = "Servers" ->
                IF a.selected_server_index + 1 < Len(a.servers)
                THEN update(a, MsgIdx("SelectServer", a.selected_server_index + 1), env) ELSE a
           [] a.screen = "Logs" ->
                IF a.log_content # <<>> THEN update(a, MsgIdx("ScrollLogDown", 3), env)
                ELSE IF a.selected_log_index + 1 < Len(a.log_entries)
                THEN update(a, MsgIdx("SelectLog", a.selected_log_index + 1), env) ELSE a
           [] a.screen = "Help" -> update(a, Msg("ScrollHelpDown"), env)
           [] OTHER -> a

\* handle_mouse (src/src/update.rs:601-826); any other button or kind is ignored
handle_mouse(a, mouse, env) ==
    CASE mouse.kind = "DownLeft" -> mouse_down_left(a, mouse.column, mouse.row, env)
      [] mouse.kind = "ScrollUp" -> mouse_scroll_up(a, mouse.column, mouse.row, env)
      [] mouse.kind = "ScrollDown" -> mouse_scroll_down(a, mouse.column, mouse.row, env)
      [] OTHER -> a

----------------------------------------------------------------------------
(* update (src/src/update.rs:9-546)                                         *)

\* the `match msg`
dispatch(a, msg, env) ==
    CASE msg.type = "Key" -> handle_key(a, msg.code, msg.ctrl, env)
      [] msg.type = "Mouse" -> handle_mouse(a, msg, env)
      [] msg.type = "Tick" -> on_Tick(a, env)
      [] msg.type = "SwitchToScreen" -> on_SwitchToScreen(a, msg.screen, env)
      [] msg.type = "SelectInstance" -> on_SelectInstance(a, msg.idx)
      [] msg.type = "LaunchInstance" -> on_LaunchInstance(a, env)
      [] msg.type = "KillInstance" -> on_KillInstance(a)
      [] msg.type = "OpenInstanceFolder" -> on_OpenInstanceFolder(a, env)
      [] msg.type = "OpenInstanceDetails" -> on_OpenInstanceDetails(a)
      [] msg.type = "SelectAccount" -> on_SelectAccount(a, msg.idx)
      [] msg.type = "ConfirmAccountSelection" -> on_ConfirmAccountSelection(a)
      [] msg.type = "SelectServer" -> on_SelectServer(a, msg.idx)
      [] msg.type = "AddServer" -> on_AddServer(a)
      [] msg.type = "EditServer" -> on_EditServer(a)
      [] msg.type = "DeleteServer" -> on_DeleteServer(a)
      [] msg.type = "ConfirmDeleteServer" -> on_ConfirmDeleteServer(a, env)
      [] msg.type = "SetJoinOnLaunch" -> on_SetJoinOnLaunch(a, env)
      [] msg.type = "LaunchWithServer" -> on_LaunchWithServer(a, env)
      [] msg.type = "InputChar" -> on_InputChar(a, msg.c)
      [] msg.type = "InputBackspace" -> on_InputBackspace(a)
      [] msg.type = "InputConfirm" -> on_InputConfirm(a, env)
      [] msg.type = "InputCancel" -> on_InputCancel(a)
      [] msg.type = "OpenAccountScreen" -> on_OpenAccountScreen(a)
      [] msg.type = "OpenServerScreen" -> on_OpenServerScreen(a, env)
      [] msg.type = "OpenHelp" -> on_OpenHelp(a)
      [] msg.type = "Back" -> on_Back(a)
      [] msg.type = "OpenInstanceLogs" -> on_OpenInstanceLogs(a, env)
      [] msg.type = "OpenLauncherLogs" -> on_OpenLauncherLogs(a, env)
      [] msg.type = "SelectLog" -> on_SelectLog(a, msg.idx)
      [] msg.type = "LoadLogContent" -> on_LoadLogContent(a, env)
      [] msg.type = "ScrollLogUp" -> on_ScrollLogUp(a, msg.idx)
      [] msg.type = "ScrollLogDown" -> on_ScrollLogDown(a, msg.idx)
      [] msg.type = "OpenLogInEditor" -> on_OpenLogInEditor(a, env)
      [] msg.type = "OpenLogFolder" -> on_OpenLogFolder(a, env)
      [] msg.type = "StartLogSearch" -> on_StartLogSearch(a)
      [] msg.type = "LogSearchChar" -> on_LogSearchChar(a, msg.c)
      [] msg.type = "LogSearchBackspace" -> on_LogSearchBackspace(a)
      [] msg.type = "LogSearchConfirm" -> on_LogSearchConfirm(a)
      [] msg.type = "LogSearchCancel" -> on_LogSearchCancel(a)
      [] msg.type = "LogSearchNext" -> log_search_next(a)
      [] msg.type = "LogSearchPrev" -> log_search_prev(a)
      [] msg.type = "ToggleLogLevel" -> on_ToggleLogLevel(a, msg.c)
      [] msg.type = "ShowAllLogLevels" -> on_ShowAllLogLevels(a)
      [] msg.type = "StartSearch" -> on_StartSearch(a)
      [] msg.type = "SearchChar" -> on_SearchChar(a, msg.c)
      [] msg.type = "SearchBackspace" -> on_SearchBackspace(a)
      [] msg.type = "SearchConfirm" -> on_SearchConfirm(a)
      [] msg.type = "SearchCancel" -> on_SearchCancel(a)
      [] msg.type = "CycleSortMode" -> on_CycleSortMode(a)
      [] msg.type = "ToggleSortDirection" -> on_ToggleSortDirection(a)
      [] msg.type = "ToggleGroupCollapse" -> on_ToggleGroupCollapse(a)
      [] msg.type = "NextGroup" -> on_NextGroup(a)
      [] msg.type = "PrevGroup" -> on_PrevGroup(a)
      [] msg.type = "ScrollHelpUp" -> on_ScrollHelpUp(a)
      [] msg.type = "ScrollHelpDown" -> on_ScrollHelpDown(a)
      [] msg.type = "Quit" -> on_Quit(a)

\* update without the clear_error of its first lines
update_unclearing(a, msg, env) ==
    dispatch([a EXCEPT !.calls = Append(@, msg.type)], msg, env)

\* update: `calls` records the messages it is entered with, in order
update(a, msg, env) ==
    LET entered == [a EXCEPT !.calls = Append(@, msg.type)]
    IN dispatch(IF msg.type # "Tick" THEN clear_error(entered) ELSE entered, msg, env)

----------------------------------------------------------------------------
(* Rendering (src/src/view): the click regions one frame registers          *)

\* frame.area(): the size of the terminal
TermWidth == 120
TermHeight == 16

frame_area == Rect(0, 0, TermWidth, TermHeight)

\* Layout [Length(1), Min(0)] of view::render
tab_area(area) == Rect(area.x, area.y, area.width, min(1, area.height))
content_area(area) ==
    Rect(area.x, area.y + min(1, area.height), area.width, saturating_sub(area.height, 1))

\* Layout [Length(3), Min(0), Length(3)] of the instances, accounts and logs screens
header_chunk(area) == Rect(area.x, area.y, area.width, 3)
body_chunk(area) == Rect(area.x, area.y + 3, area.width, saturating_sub(area.height, 6))
footer_chunk(area) == Rect(area.x, area.y + saturating_sub(area.height, 3), area.width, 3)

\* centered_rect
centered_rect(width, height, area) ==
    Rect(area.x + saturating_sub(area.width, width) \div 2,
         area.y + saturating_sub(area.height, height) \div 2,
         width, height)

\* render_tab_bar: one SwitchTab region per title
TabTitles == <<"Instances", "Accounts", "Servers", "Logs">>

RECURSIVE tab_x(_, _)
tab_x(area, i) ==
    IF i = 0 THEN area.x + 1 ELSE tab_x(area, i - 1) + Len(TabTitles[i]) + 3

render_tab_bar(area) ==
    [i \in 1..Len(TabTitles) |->
        Region(Rect(tab_x(area, i - 1), area.y, Len(TabTitles[i]), 1),
               ActionIdx("SwitchTab", i - 1))]

\* render_footer_bar: a region for every item that carries a message
FooterItem(key, action, msg) == [key |-> key, action |-> action, msg |-> msg]

RECURSIVE footer_regions(_, _, _, _)
footer_regions(area, keys, i, inner_x) ==
    IF i > Len(keys) THEN <<>>
    ELSE LET x0 == IF i > 1 THEN inner_x + 2 ELSE inner_x
             total_len == Len(keys[i].key) + 1 + Len(keys[i].action)
         IN (IF IsSome(keys[i].msg)
             THEN <<Region(Rect(area.x + 1 + x0, area.y, total_len, area.height),
                           ActionMsg("FooterAction", Unwrap(keys[i].msg)))>>
             ELSE <<>>)
            \o footer_regions(area, keys, i + 1, x0 + total_len)

render_footer_bar(area, keys) == footer_regions(area, keys, 1, 0)

\* the row loops: row idx is registered while area.y + 1 + idx < area.y + area.height - 1
list_rows(area, actions) ==
    LET n == min(Len(actions), saturating_sub(saturating_sub(area.height, 1), 1))
    IN [i \in 1..n |-> Region(Rect(area.x, area.y + i, area.width, 1), actions[i])]

\* render_instance_table
row_action(vrow) ==
    IF vrow.kind = "GroupHeader" THEN ActionKey("GroupHeader", vrow.key)
    ELSE ActionIdx("SelectItem", vrow.idx)

render_instance_table(a, area) ==
    LET visual == visual_rows(a)
    IN list_rows(area, [i \in 1..Len(visual) |-> row_action(visual[i])])

\* instances::render_footer
instances_footer(a) ==
    IF a.input_mode = "Search"
    THEN << FooterItem("Type", "Search", None),
            FooterItem("Enter", "Confirm", Some(Msg("SearchConfirm"))),
            FooterItem("Esc", "Cancel", Some(Msg("SearchCancel"))) >>
    ELSE LET selected_running ==
                 /\ IsSome(selected_instance(a))
                 /\ is_instance_running(a, Unwrap(selected_instance(a)).id)
         IN << FooterItem("j/k", "Nav", None),
               FooterItem("l/Enter", "Launch", Some(Msg("LaunchInstance"))) >>
            \o (IF selected_running
                THEN <<FooterItem("x", "Kill", Some(Msg("KillInstance")))>> ELSE <<>>)
            \o << FooterItem("/", "Search", Some(Msg("StartSearch"))),
                  FooterItem("S", "Sort", Some(Msg("CycleSortMode"))),
                  FooterItem("s", "Servers", Some(Msg("OpenServerScreen"))),
                  FooterItem("a", "Account", Some(Msg("OpenAccountScreen"))),
                  FooterItem("i", "Details", Some(Msg("OpenInstanceDetails"))),
                  FooterItem("o", "Open", Some(Msg("OpenInstanceFolder"))),
                  FooterItem("?", "Help", Some(Msg("OpenHelp"))),
                  FooterItem("q", "Quit", Some(Msg("Quit"))) >>

\* instances::render
instances_render(a, area) ==
    render_instance_table(a, body_chunk(area))
    \o render_footer_bar(footer_chunk(area), instances_footer(a))

\* the "[Esc] Back" region of the accounts and servers headers
back_region(area, back_x_offset) ==
    <<Region(Rect(area.x + 1 + back_x_offset, area.y, Len("[Esc] Back"), area.height),
             Action("GoBack"))>>

\* accounts::render_footer
accounts_footer(a) ==
    IF a.input_mode = "Search"
    THEN << FooterItem("Type", "Search", None),
            FooterItem("Enter", "Confirm", Some(Msg("SearchConfirm"))),
            FooterItem("Esc", "Cancel", Some(Msg("SearchCancel"))) >>
    ELSE << FooterItem("j/k", "Nav", None),
            FooterItem("l/Enter", "Select", Some(Msg("ConfirmAccountSelection"))),
            FooterItem("/", "Search", Some(Msg("StartSearch"))),
            FooterItem("h/Esc", "Back", Some(Msg("Back"))) >>

\* accounts::render
accounts_render(a, area) ==
    back_region(header_chunk(area), Len("Select Account") + 2)
    \o list_rows(body_chunk(area),
                 [i \in 1..Len(a.filtered_account_indices) |->
                     ActionIdx("SelectItem", a.filtered_account_indices[i])])
    \o render_footer_bar(footer_chunk(area), accounts_footer(a))

\* servers::render_footer
servers_footer ==
    << FooterItem("j/k", "Nav", None),
       FooterItem("l/Enter", "Launch", Some(Msg("LaunchWithServer"))),
       FooterItem("J", "Join", Some(Msg("SetJoinOnLaunch"))),
       FooterItem("a", "Add", Some(Msg("AddServer"))),
       FooterItem("e", "Edit", Some(Msg("EditServer"))),
       FooterItem("d", "Del", Some(Msg("DeleteServer"))),
       FooterItem("h/Esc", "Back", Some(Msg("Back"))) >>

\* servers::render, Layout [Length(3), Length(3), Min(0), Length(3)]
servers_render(a, area) ==
    LET instance_name == IF IsSome(selected_instance(a))
                         THEN Len(Unwrap(selected_instance(a)).name) ELSE Len("Unknown")
        join_area == Rect(area.x, area.y + 3, area.width, 3)
        list_area == Rect(area.x, area.y + 6, area.width, saturating_sub(area.height, 9))
    IN back_region(header_chunk(area), instance_name + Len(" - Servers") + 2)
       \o <<Region(join_area, Action("JoinCheckbox"))>>
       \o list_rows(list_area, [i \in 1..Len(a.servers) |-> ActionIdx("SelectItem", i - 1)])
       \o render_footer_bar(footer_chunk(area), servers_footer)

\* logs::render_footer
logs_footer(a) ==
    IF a.input_mode = "LogSearch"
    THEN << FooterItem("Type", "Search", None),
            FooterItem("Enter", "Confirm", Some(Msg("LogSearchConfirm"))),
            FooterItem("Esc", "Cancel", Some(Msg("LogSearchCancel"))) >>
    ELSE << FooterItem("j/k", "Nav", None),
            FooterItem("l/Enter", "Load", Some(Msg("LoadLogContent"))),
            FooterItem("J/K", "Scroll", None),
            FooterItem("/", "Search", Some(Msg("StartLogSearch"))),
            FooterItem("n/N", "Next/Prev", None),
            FooterItem("1-4", "Filter", None),
            FooterItem("0", "All", Some(Msg("ShowAllLogLevels"))),
            FooterItem("e", "Editor", Some(Msg("OpenLogInEditor"))),
            FooterItem("o", "Folder", Some(Msg("OpenLogFolder"))),
            FooterItem("h/Esc", "Back", Some(Msg("Back"))) >>

\* logs::render; the content is split [Percentage(30), Percentage(70)]
logs_render(a, area) ==
    LET body == body_chunk(area)
        list_width == (body.width * 30) \div 100
        list_area == Rect(body.x, body.y, list_width, body.height)
        preview_area == Rect(body.x + list_width, body.y, body.width - list_width, body.height)
    IN list_rows(list_area, [i \in 1..Len(a.log_entries) |-> ActionIdx("SelectLogFile", i - 1)])
       \o <<Region(preview_area, Action("ScrollLogPreview"))>>
       \o render_footer_bar(footer_chunk(area), logs_footer(a))

\* details::render, Layout [Min(0), Length(3)]
details_footer ==
    << FooterItem("h/Esc", "Back", Some(Msg("Back"))),
       FooterItem("o", "Open Folder", Some(Msg("OpenInstanceFolder"))),
       FooterItem("q", "Quit", Some(Msg("Quit"))) >>

details_render(a, area) == render_footer_bar(footer_chunk(area), details_footer)

\* an overlay: the backdrop dismisses, the body absorbs
overlay(backdrop, body) ==
    << Region(backdrop, Action("DismissOverlay")), Region(body, Action("Noop")) >>

\* help::render
help_render(area) ==
    overlay(area, centered_rect(min(55, saturating_sub(area.width, 4)),
                                min(40, saturating_sub(area.height, 4)), area))

\* a dialog that registers its body and no backdrop
render_input_dialog_body_only(area) ==
    << Region(centered_rect(min(50, saturating_sub(area.width, 4)), 5, area), Action("Noop")) >>

\* render_input_dialog
render_input_dialog(area) ==
    overlay(area, centered_rect(min(50, saturating_sub(area.width, 4)), 5, area))

\* render_error
render_error(error, area) ==
    LET error_width == min(Len(error) + 4, saturating_sub(area.width, 4))
    IN overlay(area, Rect(area.x + saturating_sub(area.width, error_width) \div 2,
                          saturating_sub(area.height, 3 + 2), error_width, 3))

\* the regions registered by the `match app.screen` of view::render
screen_render(a, area) ==
    CASE a.screen = "Instances" -> instances_render(a, area)
      [] a.screen = "Accounts" -> accounts_render(a, area)
      [] a.screen = "Servers" -> servers_render(a, area)
      [] a.screen = "Logs" -> logs_render(a, area)
      [] a.screen = "InstanceDetails" -> details_render(a, area)
      [] a.screen = "Help" -> instances_render(a, area) \o help_render(area)

\* what one frame registers, in registration order
frame_regions(a) ==
    render_tab_bar(tab_area(frame_area))
    \o screen_render(a, content_area(frame_area))
    \o (IF a.input_mode \notin {"Normal", "Search", "LogSearch"}
        THEN render_input_dialog(frame_area) ELSE <<>>)
    \o (IF IsSome(a.error_message)
        THEN render_error(Unwrap(a.error_message), frame_area) ELSE <<>>)

\* a render that registers without clearing first: the freshness of the
\* registry depends on the clear
render_appending(a) == [a EXCEPT !.click_regions = @ \o frame_regions(a)]

\* a render that also moves the server selection to the top of the list
render_selecting(a) ==
    [a EXCEPT !.click_regions = <<>> \o frame_regions(a), !.selected_server_index = 0]

\* view::render: app.click_regions.clear(), then the registrations
render(a) == [a EXCEPT !.click_regions = <<>> \o frame_regions(a)]

----------------------------------------------------------------------------
(* The program: construction and the main loop (src/src/main.rs)            *)

\* load_instances: the directory's instances, most recently launched first
load_instances(dir) == sort_by("LastPlayed", TRUE, dir)

NoProcess == [id \in {} |-> 0]

\* mpsc::unbounded_channel()
unbounded_channel == [queue |-> <<>>, sent |-> <<>>]

\* UnboundedSender::send
send(ch, e) == [queue |-> Append(ch.queue, e), sent |-> Append(ch.sent, e)]

\* a receiver that takes the newest event
recv_newest(ch) ==
    [event |-> ch.queue[Len(ch.queue)],
     rest |-> [ch EXCEPT !.queue = SubSeq(@, 1, Len(@) - 1)]]

\* UnboundedReceiver::recv on a channel that holds an event
recv(ch) == [event |-> Head(ch.queue), rest |-> [ch EXCEPT !.queue = Tail(@)]]

\* App::new; the configuration is AppConfig::default ("Last Played", ascending)
App_new(dir) ==
    LET instances == load_instances(dir)
        fields ==
            [running |-> TRUE,
             screen |-> "Instances",
             previous_screen |-> None,
             input_mode |-> "Normal",
             instances |-> instances,
             grouped_instances |-> <<>>,
             accounts |-> Accounts,
             servers |-> <<>>,
             selected_instance_index |-> 0,
             selected_account_index |-> 0,
             selected_server_index |-> 0,
             input_buffer |-> <<>>,
             edit_server_name |-> <<>>,
             edit_server_address |-> <<>>,
             error_message |-> None,
             active_account |-> seq_first(SelectSeq(Accounts, LAMBDA acc : acc.is_active)),
             search_query |-> <<>>,
             filtered_instance_indices |-> <<>>,
             filtered_account_indices |-> <<>>,
             log_entries |-> <<>>,
             selected_log_index |-> 0,
             log_content |-> <<>>,
             log_scroll_offset |-> 0,
             log_source |-> "Instance",
             pending_key |-> None,
             sort_mode |-> "LastPlayed",
             sort_ascending |-> TRUE,
             collapsed_groups |-> {},
             log_search_query |-> <<>>,
             log_search_matches |-> <<>>,
             log_search_current |-> 0,
             log_level_filter |-> {},
             help_scroll_offset |-> 0,
             selected_group_index |-> 0,
             click_regions |-> <<>>,
             last_click_time |-> None,
             last_click_pos |-> <<0, 0>>,
             running_instances |-> NoProcess,
             last_process_scan |-> 0,
             event |-> None,
             calls |-> <<>>,
             target |-> None,
             pressed |-> None,
             launched |-> <<>>,
             servers_dat |-> [id \in {dir[i].id : i \in 1..Len(dir)} |-> ServersDat(id)]]
        grouped == sort_and_group_instances(fields)
        active == {i \in 1..Len(Accounts) : Accounts[i].is_active}
    IN [grouped EXCEPT
          !.filtered_instance_indices = range_to(total_instance_count(grouped)),
          !.filtered_account_indices = range_to(Len(Accounts)),
          !.selected_account_index =
              IF active = {} THEN 0 ELSE (CHOOSE i \in active : \A j \in active : i <= j) - 1]

Init ==
    /\ \E dir \in Libraries : app = App_new(dir)
    /\ clock = 0
    /\ pc = "render"
    /\ channel = unbounded_channel

\* terminal.draw(|frame| view::render(&mut app, frame)), entered while app.running;
\* the record of the previous event (event, calls, target, launched) ends with the
\* iteration
Render ==
    /\ pc = "render"
    /\ app' = render([app EXCEPT !.event = None, !.calls = <<>>, !.target = None,
                                  !.launched = <<>>])
    /\ pc' = "event"
    /\ UNCHANGED <<clock, channel>>

\* a loop that goes on to draw whatever app.running is
Handle_looping(msg, dt, launch_ok, io_ok, found, limit) ==
    /\ pc = "event"
    /\ clock + dt <= limit
    /\ clock' = clock + dt
    /\ app' = update([app EXCEPT !.event = Some(msg)], msg,
                     [now |-> clock + dt, launch_ok |-> launch_ok, io_ok |-> io_ok,
                      found |-> found])
    /\ pc' = "render"

\* update handles the message of an event received dt after the previous one; the
\* loop then tests app.running
Handle(msg, dt, launch_ok, io_ok, found, limit) ==
    /\ pc = "event"
    /\ clock + dt <= limit
    /\ clock' = clock + dt
    /\ app' = update([app EXCEPT !.event = Some(msg)], msg,
                     [now |-> clock + dt, launch_ok |-> launch_ok, io_ok |-> io_ok,
                      found |-> found])
    /\ pc' = IF app'.running THEN "render" ELSE "done"

\* events.next() delivers an event that the producer sends meanwhile: it passes
\* through the channel within the step
DeliverBy(msg, dt, launch_ok, io_ok, found, limit) ==
    /\ Handle(msg, dt, launch_ok, io_ok, found, limit)
    /\ UNCHANGED channel

Deliver(msg, dt, launch_ok, io_ok, found) ==
    DeliverBy(msg, dt, launch_ok, io_ok, found, MaxClock)

KeyMsg(code, ctrl) == [type |-> "Key", code |-> code, ctrl |-> ctrl]
MouseMsg(kind, column, row) == [type |-> "Mouse", kind |-> kind, column |-> column, row |-> row]

\* typing is bounded: a character is delivered while the entry has room
room_for(msg) ==
    (msg.type = "Key" /\ msg.code.k = "Char" /\ app.input_mode # "Normal")
        => /\ Len(app.input_buffer) < MaxQuery
           /\ Len(app.log_search_query) < MaxQuery

----------------------------------------------------------------------------
(* Selection, search, sorting and group collapse on the instance list       *)

\* j, k, /, S, R, B, Tab, Backspace, Enter, Esc
SelectKeys ==
    {Char(106), Char(107), Char(47), Char(83), Char(82), Char(66),
     Key("Tab"), Key("Backspace"), Key("Enter"), Key("Esc")}

\* points on the first three rows of the instance table
TablePoints == {<<10, body_chunk(content_area(frame_area)).y + i>> : i \in 1..3}

SelectKey ==
    \E code \in SelectKeys :
        /\ room_for(KeyMsg(code, FALSE))
        /\ (code = Key("Enter") => app.input_mode = "Search")
        /\ Deliver(KeyMsg(code, FALSE), 1, TRUE, TRUE, NoProcess)

GroupKey ==
    \E code \in {Char(106), Char(107)} :
        Deliver(KeyMsg(code, TRUE), 1, TRUE, TRUE, NoProcess)

\* a left press on a group header row
HeaderClick ==
    \E p \in TablePoints :
        /\ IsSome(find_region(app.click_regions, p[1], p[2]))
        /\ Unwrap(find_region(app.click_regions, p[1], p[2])).kind = "GroupHeader"
        /\ Deliver(MouseMsg("DownLeft", p[1], p[2]), 1, TRUE, TRUE, NoProcess)

NextSelect == Render \/ SelectKey \/ GroupKey \/ HeaderClick

SpecSelect == Init /\ [][NextSelect]_vars

\* the same sessions without the group keys
NextSearch == Render \/ SelectKey \/ HeaderClick

SpecSearch == Init /\ [][NextSearch]_vars

----------------------------------------------------------------------------
(* Properties of the selection, the filter and the group collapse           *)

\* the keys of the groups of the library
group_keys(a) == {group_key(a.grouped_instances[k]) : k \in 1..Len(a.grouped_instances)}

\* the visual indices of the Instance rows on screen
shown_indices(a) ==
    {visual_rows(a)[i].idx :
        i \in {j \in 1..Len(visual_rows(a)) : visual_rows(a)[j].kind = "Instance"}}

\* C1: in every reachable state selected_instance_index is smaller than the
\* visible instance count, or is 0 when that count is 0.
C1_SelectionInRange ==
    LET count == visible_instance_count(app)
    IN \/ app.selected_instance_index < count
       \/ (count = 0 /\ app.selected_instance_index = 0)

\* a collapse by Tab has clamped the selection to the last visible instance
C1_ClampedByCollapse ==
    /\ app.calls = <<"Key", "ToggleGroupCollapse">>
    /\ visible_instance_count(app) > 0
    /\ visible_instance_count(app) < total_instance_count(app)
    /\ app.selected_instance_index = visible_instance_count(app) - 1

\* C2: the instance selected_instance() resolves to is one of the Instance
\* rows of visual_rows(); when no Instance row is displayed it resolves to no
\* instance.
C2_SelectionIsDisplayed ==
    IF shown_indices(app) = {} THEN selected_instance(app) = None
    ELSE IsSome(selected_instance(app)) =>
            \E idx \in shown_indices(app) :
                /\ IsSome(instance_by_visual_idx(app, idx))
                /\ Unwrap(instance_by_visual_idx(app, idx)).id = Unwrap(selected_instance(app)).id

\* C3: the number of Instance rows of visual_rows() equals the number of
\* instances that are in a non-collapsed group and match the search query.
C3_RowsAreTheMatches ==
    LET vm == visible_members(app)
        matching == {i \in 1..Len(vm) :
                        app.search_query = <<>> \/ instance_matches(vm[i], app.search_query)}
    IN Cardinality(shown_indices(app)) = Cardinality(matching)

\* C4: toggling any group's collapse state twice in succession yields the same
\* visual_rows() as before the two toggles.
C4_DoubleToggleKeepsRows ==
    \A key \in group_keys(app) :
        visual_rows(toggle_group_collapse(toggle_group_collapse(app, key), key))
            = visual_rows(app)

\* C5: filtered_instance_indices is a strictly increasing list of visual
\* indices below the visible instance count; when the search query is empty it
\* is exactly 0..visible_count-1 in order.
C5_FilteredWellFormed ==
    LET f == app.filtered_instance_indices
        count == visible_instance_count(app)
    IN /\ \A i \in 1..Len(f) : f[i] >= 0 /\ f[i] < count
       /\ \A i \in 1..(Len(f) - 1) : f[i] < f[i + 1]
       /\ (app.search_query = <<>> => f = range_to(count))

\* a query that keeps some of the visible instances and drops others, with a
\* collapsed group
C5_ProperFilter ==
    /\ app.search_query # <<>>
    /\ app.collapsed_groups # {}
    /\ app.filtered_instance_indices # <<>>
    /\ Len(app.filtered_instance_indices) < visible_instance_count(app)

\* the key of the group the selected instance belongs to
selected_instance_group(a) ==
    IF IsSome(Unwrap(selected_instance(a)).group)
    THEN Unwrap(Unwrap(selected_instance(a)).group) ELSE Ungrouped

\* C6: toggling the collapse state of a group that does not contain the
\* selected instance leaves the selected instance (by id) unchanged.
C6_SelectionSurvivesCollapse ==
    IsSome(selected_instance(app)) =>
        \A key \in group_keys(app) \ {selected_instance_group(app)} :
            LET b == toggle_group_collapse(app, key)
            IN /\ IsSome(selected_instance(b))
               /\ Unwrap(selected_instance(b)).id = Unwrap(selected_instance(app)).id

----------------------------------------------------------------------------
(* Presses on list rows at varying intervals                                *)

\* the Instances, Accounts, Servers and Logs tabs and two rows of the lists:
\* <<10, 6>> is the first instance, the second account, the second log file;
\* <<10, 9>> is the third instance, the second server
RowPoints == {<<3, 0>>, <<15, 0>>, <<25, 0>>, <<35, 0>>, <<10, 6>>, <<10, 9>>}

\* the same instant, 100 ms, 400 ms and 600 ms after the previous event
PressDelays == {0, 1, 4, 6}

\* a left press; PrismLauncher cannot be started, so a launch ends in the error overlay
RowPress ==
    \E p \in RowPoints, dt \in PressDelays :
        Deliver(MouseMsg("DownLeft", p[1], p[2]), dt, FALSE, TRUE, NoProcess)

NextPress == Render \/ RowPress

SpecPress == Init /\ [][NextPress]_vars

----------------------------------------------------------------------------
(* Presses and keys across the screens and the overlays, at one instant     *)

\* the Instances, Accounts and Logs tabs; the first row of the lists; a point
\* of the second row that the help overlay and the log preview cover; the help
\* item of the instances footer; a point of the header, where only the
\* accounts screen registers a region
ScreenPoints ==
    {<<3, 0>>, <<15, 0>>, <<35, 0>>, <<10, 5>>, <<40, 6>>, <<86, 14>>, <<20, 2>>}

\* a left press; a launch it causes may succeed or fail
ScreenPress ==
    \E p \in ScreenPoints, launch_ok \in BOOLEAN :
        Deliver(MouseMsg("DownLeft", p[1], p[2]), 0, launch_ok, TRUE, NoProcess)

\* Esc, ?, i
ScreenKey ==
    \E code \in {Key("Esc"), Char(63), Char(105)} :
        Deliver(KeyMsg(code, FALSE), 0, FALSE, TRUE, NoProcess)

NextScreens == Render \/ ScreenPress \/ ScreenKey

SpecScreens == Init /\ [][NextScreens]_vars

----------------------------------------------------------------------------
(* Properties of the pointer input and of the screen memory                 *)

\* the step delivers a left press
left_press_step ==
    /\ pc = "event"
    /\ IsSome(app'.event)
    /\ Unwrap(app'.event).type = "Mouse"
    /\ Unwrap(app'.event).kind = "DownLeft"

\* the point of the press the step delivers
press_point == <<Unwrap(app'.event).column, Unwrap(app'.event).row>>

\* the select and the activate message of a list row, None for any other target
row_messages(screen, hit) ==
    IF hit = None THEN None
    ELSE CASE Unwrap(hit).kind = "SelectItem" /\ screen = "Instances" ->
                Some(<<"SelectInstance", "LaunchInstance">>)
           [] Unwrap(hit).kind = "SelectItem" /\ screen = "Accounts" ->
                Some(<<"SelectAccount", "ConfirmAccountSelection">>)
           [] Unwrap(hit).kind = "SelectItem" /\ screen = "Servers" ->
                Some(<<"SelectServer", "LaunchWithServer">>)
           [] Unwrap(hit).kind = "SelectLogFile" -> Some(<<"SelectLog", "LoadLogContent">>)
           [] OTHER -> None

\* C7: a left press on a list row performs select and then activate if and
\* only if the previous left press was strictly less than 400 ms earlier at
\* the identical (column, row), otherwise select only; every left press
\* records its time and position, and no other step changes them.
C7_DoubleClickRule ==
    [][ IF left_press_step
        THEN LET double == /\ IsSome(app.last_click_time)
                           /\ clock' - Unwrap(app.last_click_time) < DoubleClickWindow
                           /\ app.last_click_pos = press_point
                 row == row_messages(app.screen, app'.target)
             IN /\ app'.last_click_time = Some(clock')
                /\ app'.last_click_pos = press_point
                /\ IsSome(row) =>
                      app'.calls = IF double THEN <<"Mouse">> \o Unwrap(row)
                                   ELSE <<"Mouse", Unwrap(row)[1]>>
        ELSE /\ app'.last_click_time = app.last_click_time
             /\ app'.last_click_pos = app.last_click_pos ]_vars

\* the second of two presses on an instance row 100 ms apart: select and launch
C7_SelectAndActivate ==
    /\ app.calls = <<"Mouse", "SelectInstance", "LaunchInstance">>
    /\ app.last_click_time = Some(1)

\* the registered regions that contain the point, by position in the registry
regions_at(regions, point) ==
    {i \in 1..Len(regions) :
        /\ regions[i].rect.x <= point[1]
        /\ point[1] < regions[i].rect.x + regions[i].rect.width
        /\ regions[i].rect.y <= point[2]
        /\ point[2] < regions[i].rect.y + regions[i].rect.height}

\* C8: a left press resolves to the action of the last-registered region whose
\* rectangle contains the point; a point contained in no region triggers no
\* action: only the last-click time and position change.
C8_LastRegisteredWins ==
    [][ left_press_step =>
          LET hits == regions_at(app.click_regions, press_point)
          IN IF hits = {}
             THEN app' = [app EXCEPT !.event = app'.event,
                                     !.pressed = Some([target |-> None, screen |-> app.screen]),
                                     !.calls = <<"Mouse">>,
                                     !.last_click_time = Some(clock'),
                                     !.last_click_pos = press_point]
             ELSE app'.target =
                     Some(app.click_regions[CHOOSE i \in hits : \A j \in hits : j <= i].action) ]_vars

\* a press inside the help overlay, on a point that a table row, the backdrop
\* and the overlay body all contain
C8_PressOnOverlay ==
    /\ IsSome(app.target)
    /\ Unwrap(app.target).kind = "Noop"
    /\ app.screen = "Help"
    /\ Cardinality(regions_at(app.click_regions, app.last_click_pos)) >= 3

\* C9: whenever an event is about to be handled, the registry holds exactly the
\* regions a render of the current state registers.
C9_RegistryIsFresh ==
    pc = "event" => app.click_regions = frame_regions(app)

\* an event is awaited on the help screen, whose frame differs from the first one
C9_HelpFrame ==
    /\ pc = "event"
    /\ app.screen = "Help"
    /\ app.click_regions # <<>>
    /\ app.click_regions[Len(app.click_regions)].action.kind = "Noop"

\* the messages that open a screen
OpenMessages ==
    {"OpenAccountScreen", "OpenServerScreen", "OpenHelp", "OpenInstanceDetails",
     "OpenInstanceLogs", "OpenLauncherLogs"}

\* the outcome of the external calls when a message is handled now
env_now(io_ok) == [now |-> clock, launch_ok |-> TRUE, io_ok |-> io_ok, found |-> NoProcess]

\* C10: Back sets the screen to the remembered previous screen and empties the
\* memory, or sets the screen to Instances if nothing is remembered; two
\* consecutive Backs end on Instances; an Open* message that changes the screen
\* from S to T followed by Back restores S.
C10_BackRestores ==
    LET back == update(app, Msg("Back"), env_now(TRUE))
    IN /\ back.screen = IF IsSome(app.previous_screen) THEN Unwrap(app.previous_screen)
                        ELSE "Instances"
       /\ back.previous_screen = None
       /\ update(back, Msg("Back"), env_now(TRUE)).screen = "Instances"
       /\ \A type \in OpenMessages, io_ok \in BOOLEAN :
             LET opened == update(app, Msg(type), env_now(io_ok))
             IN opened.screen # app.screen =>
                   update(opened, Msg("Back"), env_now(io_ok)).screen = app.screen

\* Back has returned from the logs to the accounts screen they were opened from
C10_BackToAccounts ==
    /\ app.calls = <<"Key", "Back">>
    /\ app.screen = "Accounts"
    /\ app.previous_screen = None
    /\ app.log_entries # <<>>

----------------------------------------------------------------------------
(* Text entry: the search entries, the server dialogs and the delete prompt *)

\* the number of events of a session on the dialogs
MaxSteps == 6

InitDialogs ==
    /\ app = App_new(LibraryServers)
    /\ clock = 0
    /\ pc = "render"
    /\ channel = unbounded_channel

\* j, s, /, g, L, a, e, d, l, Esc
NavKeys ==
    {Char(106), Char(115), Char(47), Char(103), Char(76), Char(97), Char(101), Char(100),
     Char(108), Key("Esc")}

\* 'h', ' ', ':' and the editing keys
TypeKeys == {Char(104), Char(32), Char(58), Key("Backspace"), Key("Enter"), Key("Esc")}

\* a key pressed in Normal mode
NavKey ==
    \E code \in NavKeys, io_ok \in BOOLEAN :
        /\ app.input_mode = "Normal"
        /\ DeliverBy(KeyMsg(code, FALSE), 1, TRUE, io_ok, NoProcess, MaxSteps)

\* a key pressed in a text-entry mode
TypeKey ==
    \E code \in TypeKeys, io_ok \in BOOLEAN :
        /\ app.input_mode \notin {"Normal", "ConfirmDelete"}
        /\ room_for(KeyMsg(code, FALSE))
        /\ DeliverBy(KeyMsg(code, FALSE), 1, TRUE, io_ok, NoProcess, MaxSteps)

\* 'y' or 'n' answered to the delete prompt
AnswerKey ==
    \E code \in {Char(121), Char(110)}, io_ok \in BOOLEAN :
        /\ app.input_mode = "ConfirmDelete"
        /\ DeliverBy(KeyMsg(code, FALSE), 1, TRUE, io_ok, NoProcess, MaxSteps)

\* a left press on a row of the server list
ServerClick ==
    \E i \in 1..Len(app.click_regions) :
        LET rect == app.click_regions[i].rect
            hit == find_region(app.click_regions, rect.x, rect.y)
        IN /\ app.screen = "Servers"
           /\ IsSome(hit)
           /\ Unwrap(hit).kind = "SelectItem"
           /\ DeliverBy(MouseMsg("DownLeft", rect.x, rect.y), 1, TRUE, TRUE, NoProcess,
                        MaxSteps)

NextDialogs == Render \/ NavKey \/ TypeKey \/ AnswerKey \/ ServerClick

SpecDialogs == InitDialogs /\ [][NextDialogs]_vars

----------------------------------------------------------------------------
(* Properties of the text entry                                             *)

\* the outcome of the external calls when a message is handled now
env_with(launch_ok, io_ok) ==
    [now |-> clock, launch_ok |-> launch_ok, io_ok |-> io_ok, found |-> NoProcess]

\* keys with a binding on some screen: q, l, x, S, R, h, g, j, k, s, a, d, e, y, i, ?, /,
\* L, J, Tab, Enter, Esc, Backspace, Left, Right
BoundKeys ==
    {Char(c) : c \in {113, 108, 120, 83, 82, 104, 103, 106, 107, 115, 97, 100, 101, 121,
                      105, 63, 47, 76, 74}}
        \cup {Key("Tab"), Key("Enter"), Key("Esc"), Key("Backspace"), Key("Left"),
              Key("Right")}

\* C11: a Key message received while input_mode is not Normal leaves screen,
\* previous_screen, the running flag, running_instances, the sort mode and
\* direction, collapsed_groups and pending_key unchanged.
C11_TextEntryCapturesKeys ==
    app.input_mode # "Normal" =>
        \A code \in BoundKeys, ctrl \in BOOLEAN, io_ok \in BOOLEAN :
            LET b == update(app, KeyMsg(code, ctrl), env_with(TRUE, io_ok))
            IN /\ b.screen = app.screen
               /\ b.previous_screen = app.previous_screen
               /\ b.running = app.running
               /\ b.running_instances = app.running_instances
               /\ b.sort_mode = app.sort_mode
               /\ b.sort_ascending = app.sort_ascending
               /\ b.collapsed_groups = app.collapsed_groups
               /\ b.pending_key = app.pending_key

\* 'h', the key that goes back on the Servers screen, has been typed into the
\* name of a new server while an instance is running
C11_TypedIntoDialog ==
    /\ app.event = Some(KeyMsg(Char(104), FALSE))
    /\ app.input_mode = "AddServerName"
    /\ app.input_buffer = <<104>>
    /\ app.screen = "Servers"
    /\ DOMAIN app.running_instances # {}

\* the state with the ghost call log erased
sans_calls(a) == [a EXCEPT !.calls = <<>>]

\* C12: with 'g' pending on the Instances screen in Normal mode, the next
\* keystroke is consumed as the second chord element and empties the pending
\* slot: 'l' opens the launcher logs and launches nothing; any other key first
\* fires the buffered 'g' action (select the first filtered instance) and then
\* has its own action applied.
C12_NextKeyCompletesChord ==
    (app.pending_key = Some(103) /\ app.screen = "Instances" /\ app.input_mode = "Normal") =>
        \A code \in BoundKeys, ctrl \in BOOLEAN, io_ok \in BOOLEAN :
            LET env == env_with(TRUE, io_ok)
                b == update(app, KeyMsg(code, ctrl), env)
                emptied == [app EXCEPT !.pending_key = None]
                first == seq_first(app.filtered_instance_indices)
                top == IF IsSome(first)
                       THEN update(emptied, MsgIdx("SelectInstance", Unwrap(first)), env)
                       ELSE emptied
            IN IF IsChar(code, 108)
               THEN /\ b.pending_key = None
                    /\ b.calls = app.calls \o <<"Key", "OpenLauncherLogs">>
                    /\ b.running_instances = app.running_instances
               ELSE sans_calls(b) = sans_calls(update(top, KeyMsg(code, ctrl), env))

----------------------------------------------------------------------------
(* Launching, the running set and the process scans                         *)

\* Keys are pressed until MaxKeyTime and ticks are handled until MaxTime
MaxKeyTime == 10
MaxTime == 330

\* The tick interval fires every 250 ms (src/src/main.rs:39); a tick is handled
\* when the loop gets to it: here 1 s or 10 s after the previous event
TickGaps == {10, 100}

\* l, j, k, x, s, Esc
RunKeys == {Char(108), Char(106), Char(107), Char(120), Char(115), Key("Esc")}

\* Process tables: which of two Java processes exist, and the instance each
\* command line names
Pids == {7, 8}
InstanceIds == {LibraryFlat[i].id : i \in 1..Len(LibraryFlat)}
ProcessTables == UNION {[S -> InstanceIds] : S \in SUBSET Pids}

\* two instances: "i1" with two servers, "i2" with none
InitRun ==
    /\ app = App_new(LibraryFlat)
    /\ clock = 0
    /\ pc = "render"
    /\ channel = unbounded_channel

RunKey ==
    \E code \in RunKeys, launch_ok \in BOOLEAN :
        /\ clock <= MaxKeyTime
        /\ DeliverBy(KeyMsg(code, FALSE), 0, launch_ok, TRUE, NoProcess, MaxTime)

TickStep ==
    \E dt \in TickGaps, processes \in ProcessTables :
        \E found \in scan_outcomes(processes) :
            DeliverBy(Msg("Tick"), dt, TRUE, TRUE, found, MaxTime)

NextRun == Render \/ RunKey \/ TickStep

SpecRun == InitRun /\ [][NextRun]_vars

\* The sessions in which liveness is checked: 'l' is pressed at the start, any
\* number of times, and ticks follow
LaunchKey ==
    \E launch_ok \in BOOLEAN :
        /\ clock = 0
        /\ DeliverBy(KeyMsg(Char(108), FALSE), 0, launch_ok, TRUE, NoProcess, MaxTime)

NextRunFair == Render \/ LaunchKey \/ TickStep

\* the tick interval never stops and the loop draws after every event
SpecRunFair == InitRun /\ [][NextRunFair]_vars /\ WF_vars(Render) /\ SF_vars(TickStep)

\* What update can be handed besides Tick: the keys with a binding, with and
\* without Ctrl, a press or a wheel step on every registered region, and the
\* semantic messages
PlainTypes ==
    {"LaunchInstance", "KillInstance", "OpenInstanceFolder", "OpenInstanceDetails",
     "ConfirmAccountSelection", "AddServer", "EditServer", "DeleteServer",
     "ConfirmDeleteServer", "SetJoinOnLaunch", "LaunchWithServer", "InputBackspace",
     "InputConfirm", "InputCancel", "OpenAccountScreen", "OpenServerScreen", "OpenHelp",
     "Back", "OpenInstanceLogs", "OpenLauncherLogs", "LoadLogContent", "OpenLogInEditor",
     "OpenLogFolder", "StartLogSearch", "LogSearchBackspace", "LogSearchConfirm",
     "LogSearchCancel", "LogSearchNext", "LogSearchPrev", "ShowAllLogLevels",
     "StartSearch", "SearchBackspace", "SearchConfirm", "SearchCancel", "CycleSortMode",
     "ToggleSortDirection", "ToggleGroupCollapse", "NextGroup", "PrevGroup",
     "ScrollHelpUp", "ScrollHelpDown", "Quit"}

OtherMessages ==
    {KeyMsg(code, ctrl) : code \in BoundKeys, ctrl \in BOOLEAN}
    \cup {MouseMsg(kind, app.click_regions[i].rect.x, app.click_regions[i].rect.y) :
            kind \in {"DownLeft", "ScrollUp", "ScrollDown"},
            i \in 1..Len(app.click_regions)}
    \cup {Msg(type) : type \in PlainTypes}
    \cup {MsgIdx(type, idx) :
            type \in {"SelectInstance", "SelectAccount", "SelectServer", "SelectLog",
                      "ScrollLogUp", "ScrollLogDown"},
            idx \in 0..1}
    \cup {MsgChar(type, 104) : type \in {"InputChar", "SearchChar", "LogSearchChar"}}
    \cup {[type |-> "SwitchToScreen", screen |-> s] :
            s \in {"Instances", "Accounts", "Servers", "Logs"}}

env_at(now, ok, found) ==
    [now |-> now, launch_ok |-> ok, io_ok |-> ok, found |-> found]

\* C13: a step that handles Tick leaves error_message as it was, also when the
\* tick scans the processes; whenever an error is shown, any other message
\* removes it: afterwards error_message is empty or the error that the handling
\* of that message set (shown by replacing the text with one no handler sets).
C13_ErrorsAreTransient ==
    /\ [][app'.event = Some(Msg("Tick")) => app'.error_message = app.error_message]_vars
    /\ [](pc = "event" /\ IsSome(app.error_message) =>
            LET stale == [app EXCEPT !.error_message = Some("stale")]
            IN \A msg \in OtherMessages, ok \in BOOLEAN :
                update(stale, msg, env_at(clock, ok, NoProcess)).error_message
                    # Some("stale"))

\* a tick scanned the processes while the error of a failed launch was shown
C13_ErrorOutlivesScan ==
    /\ app.event = Some(Msg("Tick"))
    /\ app.calls = <<"Tick", "poll_running_instances">>
    /\ app.error_message = Some("Launch failed")

\* the entry that InputConfirm rejects: a name that is empty once trimmed, or an
\* address that validate_server_address refuses
entry_rejected(a) ==
    \/ /\ a.input_mode \in {"AddServerName", "EditServerName"}
       /\ trim(a.input_buffer) = <<>>
    \/ /\ a.input_mode \in {"AddServerAddress", "EditServerAddress"}
       /\ IsSome(validate_server_address(trim(a.input_buffer)))

\* C14: InputConfirm (sent directly or by Enter) on a rejected name or address
\* sets error_message and leaves input_mode, input_buffer, the server list and
\* selected_server_index as they were; no servers.dat is written, whether or not
\* writing would succeed.
C14_RejectedEntryStays ==
    entry_rejected(app) =>
        \A msg \in {Msg("InputConfirm"), KeyMsg(Key("Enter"), FALSE)}, io_ok \in BOOLEAN :
            LET b == update(app, msg, env_with(TRUE, io_ok))
            IN /\ IsSome(b.error_message)
               /\ b.input_mode = app.input_mode
               /\ b.input_buffer = app.input_buffer
               /\ b.servers = app.servers
               /\ b.selected_server_index = app.selected_server_index
               /\ b.servers_dat = app.servers_dat

\* Enter on the address "h:" of a server being edited was refused
C14_BadPortRefused ==
    /\ app.event = Some(KeyMsg(Key("Enter"), FALSE))
    /\ app.input_mode = "EditServerAddress"
    /\ app.input_buffer = <<104, 58>>
    /\ app.error_message = Some("Invalid port number")

----------------------------------------------------------------------------
(* Server address validation                                                *)

\* Addresses are the examples below and every string of at most MaxAddr
\* characters of AddrChars
MaxAddr == 3

\* ' ', no-break space (U+00A0), ':', 'h', '9'
AddrChars == {32, 160, 58, 104, 57}

\* "mc.example.com:25565", "a b.com", "host:abc", "example.com:99999", ":25565"
AddrExamples ==
    { <<109, 99, 46, 101, 120, 97, 109, 112, 108, 101, 46, 99, 111, 109, 58,
        50, 53, 53, 54, 53>>,
      <<97, 32, 98, 46, 99, 111, 109>>,
      <<104, 111, 115, 116, 58, 97, 98, 99>>,
      <<101, 120, 97, 109, 112, 108, 101, 46, 99, 111, 109, 58, 57, 57, 57, 57, 57>>,
      <<58, 50, 53, 53, 54, 53>> }

Addresses == AddrExamples \cup UNION {[1..n -> AddrChars] : n \in 0..MaxAddr}

\* the address entry of a new server "h" of instance "i1": s, a, h, Enter
AddressDialog ==
    LET env == [now |-> 0, launch_ok |-> TRUE, io_ok |-> TRUE, found |-> NoProcess]
        servers == update(App_new(LibraryFlat), KeyMsg(Char(115), FALSE), env)
        name == update(servers, KeyMsg(Char(97), FALSE), env)
        named == update(name, KeyMsg(Char(104), FALSE), env)
    IN [update(named, KeyMsg(Key("Enter"), FALSE), env) EXCEPT !.calls = <<>>]

\* the address has been typed into the entry
InitValidate ==
    /\ \E address \in Addresses : app = [AddressDialog EXCEPT !.input_buffer = address]
    /\ clock = 0
    /\ pc = "render"
    /\ channel = unbounded_channel

ConfirmAddress ==
    \E io_ok \in BOOLEAN :
        /\ app.input_mode = "AddServerAddress"
        /\ Deliver(KeyMsg(Key("Enter"), FALSE), 1, TRUE, io_ok, NoProcess)

NextValidate == Render \/ ConfirmAddress

SpecValidate == InitValidate /\ [][NextValidate]_vars

\* a decimal number in 0..65535
decimal_port(s) ==
    /\ s # <<>>
    /\ \A i \in 1..Len(s) : s[i] >= 48 /\ s[i] <= 57
    /\ digits_value(s) <= 65535

\* C15: validation rejects the empty address, an address containing whitespace,
\* an address whose suffix after the last colon is not a decimal number in
\* 0..65535, and an address whose host before that colon is empty; it accepts
\* every other address, with or without a port.
C15_AddressRule ==
    app.input_mode = "AddServerAddress" =>
        LET address == app.input_buffer
            colons == {i \in 1..Len(address) : address[i] = 58}
            last == CHOOSE i \in colons : \A j \in colons : j <= i
            rejected ==
                \/ address = <<>>
                \/ \E i \in 1..Len(address) : is_whitespace(address[i])
                \/ /\ colons # {}
                   /\ \/ ~decimal_port(SubSeq(address, last + 1, Len(address)))
                      \/ last = 1
        IN IsSome(validate_server_address(address)) <=> rejected

\* C16: when LaunchInstance or LaunchWithServer gets to call the launcher (an
\* instance is selected and not running, and for LaunchWithServer a server is
\* selected), a running record with no pid and the launch time now is inserted
\* for the selected instance exactly when the call succeeds; when it fails,
\* only error_message changes, to the launch-failure text.
C16_RunningOnlyIfLaunched ==
    \A type \in {"LaunchInstance", "LaunchWithServer"}, launch_ok \in BOOLEAN :
        LET instance == selected_instance(app)
            entered == [app EXCEPT !.calls = Append(@, type),
                                   !.launched = Append(@, Unwrap(instance).id)]
            b == update(app, Msg(type), env_with(launch_ok, TRUE))
        IN (/\ IsSome(instance)
            /\ ~is_instance_running(app, Unwrap(instance).id)
            /\ type = "LaunchWithServer" => IsSome(selected_server(app)))
           => IF launch_ok
              THEN b = [entered EXCEPT
                          !.error_message = None,
                          !.running_instances =
                              map_insert(@, Unwrap(instance).id,
                                         [pid |-> None, launched_at |-> clock])]
              ELSE b = [entered EXCEPT !.error_message = Some("Launch failed")]

\* 'l' on the server screen, one second into the session, launched "i1"
C16_LaunchedWithServer ==
    /\ app.event = Some(KeyMsg(Char(108), FALSE))
    /\ app.calls = <<"Key", "LaunchWithServer">>
    /\ clock = 10
    /\ app.running_instances = [id \in {"i1"} |-> [pid |-> None, launched_at |-> 10]]

\* the instance is marked running and no scan has matched it to a process yet
unmatched(a, id) ==
    /\ id \in DOMAIN a.running_instances
    /\ ~IsSome(a.running_instances[id].pid)

\* the step handled a Tick that scanned the processes
scanned ==
    /\ app'.event = Some(Msg("Tick"))
    /\ \E i \in 1..Len(app'.calls) : app'.calls[i] = "poll_running_instances"

\* C17: a scan never removes a never-matched instance before 30 s have passed
\* since its launch; a scan later than that leaves no never-matched instance
\* behind; and, ticks being handled again and again, every never-matched
\* instance is eventually removed or matched.
C17_UnmatchedGivenUp ==
    /\ [][\A id \in InstanceIds :
            (unmatched(app, id) /\ scanned)
                => /\ id \notin DOMAIN app'.running_instances
                        => clock' - app.running_instances[id].launched_at >= LaunchGrace
                   /\ clock' - app.running_instances[id].launched_at > LaunchGrace
                        => ~unmatched(app', id)]_vars
    /\ \A id \in InstanceIds :
            unmatched(app, id) ~> ~unmatched(app, id)

\* a scan more than 30 s after the launches gave up on an instance no scan had
\* matched
C17_GaveUp ==
    /\ app.event = Some(Msg("Tick"))
    /\ app.calls = <<"Tick", "poll_running_instances", "gave_up">>
    /\ DOMAIN app.running_instances = {}

\* the state after a Tick, handled dt after the current state, that scans the
\* processes and gets `found`
after_scan(dt, found) ==
    update(app, Msg("Tick"), [now |-> clock + dt, launch_ok |-> TRUE, io_ok |-> TRUE,
                              found |-> found])

scan_due(dt) ==
    DOMAIN app.running_instances # {} /\ clock + dt - app.last_process_scan >= ScanPeriod

\* C18 as stated: a running instance bound to a pid is removed by the first
\* scan whose process table no longer holds that pid.
C18_EvictedWhenPidGone ==
    \A id \in DOMAIN app.running_instances, dt \in TickGaps, processes \in ProcessTables :
        (/\ IsSome(app.running_instances[id].pid)
         /\ scan_due(dt)
         /\ Unwrap(app.running_instances[id].pid) \notin DOMAIN processes)
        => \A found \in scan_outcomes(processes) :
                id \notin DOMAIN after_scan(dt, found).running_instances

\* C18 as amended: a running instance bound to a pid is removed by the first
\* scan that matches no Java process to the instance; a scan that matches one,
\* with the same or another pid, keeps the record and binds it to that pid.
C18_EvictedWhenUnmatched ==
    \A id \in DOMAIN app.running_instances, dt \in TickGaps, processes \in ProcessTables :
        (IsSome(app.running_instances[id].pid) /\ scan_due(dt))
        => \A found \in scan_outcomes(processes) :
             LET b == after_scan(dt, found)
             IN IF id \in DOMAIN found
                THEN /\ id \in DOMAIN b.running_instances
                     /\ b.running_instances[id] =
                          [app.running_instances[id] EXCEPT !.pid = Some(found[id])]
                ELSE id \notin DOMAIN b.running_instances

\* a scan found no process for an instance it had matched before, and removed
\* it less than 30 s after the launch
C18_GameExited ==
    /\ app.event = Some(Msg("Tick"))
    /\ app.calls = <<"Tick", "poll_running_instances", "exited">>
    /\ DOMAIN app.running_instances = {}
    /\ clock < LaunchGrace

\* update scanned the processes on the way to state a
has_scanned(a) == \E i \in 1..Len(a.calls) : a.calls[i] = "poll_running_instances"

\* C19: a step scans the processes only if it handles a Tick, an instance is
\* marked running and at least 2 s have passed since last_process_scan, which
\* the scan sets to the current time and which nothing else changes: two scans
\* are at least 2 s apart and none happens while nothing is running. No other
\* message that follows one of the session's key presses scans or moves
\* last_process_scan, even when it is handled 2 s after the last scan or later.
C19_ScanCadence ==
    /\ [][/\ has_scanned(app')
              => /\ app'.event = Some(Msg("Tick"))
                 /\ DOMAIN app.running_instances # {}
                 /\ clock' - app.last_process_scan >= ScanPeriod
                 /\ app'.last_process_scan = clock'
          /\ ~has_scanned(app') => app'.last_process_scan = app.last_process_scan]_vars
    /\ [](pc = "event" /\ clock <= MaxKeyTime /\ DOMAIN app.running_instances # {} =>
            \A msg \in OtherMessages :
                LET b == update(app, msg, env_at(clock + ScanPeriod, TRUE, NoProcess))
                IN ~has_scanned(b) /\ b.last_process_scan = app.last_process_scan)

\* the first scan, exactly 2 s after the start
C19_FirstScan ==
    /\ app.event = Some(Msg("Tick"))
    /\ has_scanned(app)
    /\ clock = ScanPeriod
    /\ app.last_process_scan = clock

\* C20: selected_server_index is below the number of servers, or 0 when there
\* is none; ConfirmDeleteServer (sent directly or by 'y' in the confirmation)
\* removes the server at the selected index and no other, moves the index to
\* the new last server when it was beyond it (0 when none is left), and always
\* returns input_mode to Normal.
C20_ServerSelectionInRange ==
    /\ \/ app.selected_server_index < Len(app.servers)
       \/ app.servers = <<>> /\ app.selected_server_index = 0
    /\ \A io_ok \in BOOLEAN :
        LET b == update(app, Msg("ConfirmDeleteServer"), env_with(TRUE, io_ok))
            at == app.selected_server_index
            n == Len(app.servers)
        IN /\ b.input_mode = "Normal"
           /\ at < n =>
                /\ Len(b.servers) = n - 1
                /\ \A i \in 1..(n - 1) :
                        b.servers[i] = IF i <= at THEN app.servers[i] ELSE app.servers[i + 1]
                /\ b.selected_server_index =
                        IF n = 1 THEN 0 ELSE IF at = n - 1 THEN n - 2 ELSE at
           /\ app.input_mode = "ConfirmDelete" =>
                sans_calls(update(app, KeyMsg(Char(121), FALSE), env_with(TRUE, io_ok)))
                    = sans_calls(b)

\* 'y' deleted the last of the five servers of "i5": four are left and the
\* fourth is selected
C20_LastOfFiveDeleted ==
    /\ app.event = Some(KeyMsg(Char(121), FALSE))
    /\ app.servers = SubSeq(ServersDat("i5"), 1, 4)
    /\ app.selected_server_index = 3
    /\ app.input_mode = "Normal"

----------------------------------------------------------------------------
(* The rows of the instance table                                           *)

\* the filtered members of group k of state a, as visual indices: none when
\* the group is collapsed
filtered_members(a, k) ==
    LET base == Len(visible_members(a)) - Len(visible_from(a, k))
    IN IF is_collapsed(a, a.grouped_instances[k]) THEN {}
       ELSE {v \in {a.filtered_instance_indices[i] :
                       i \in 1..Len(a.filtered_instance_indices)} :
                v >= base /\ v < base + Len(a.grouped_instances[k].instances)}

header_shown(a, k) ==
    is_collapsed(a, a.grouped_instances[k]) \/ filtered_members(a, k) # {}

\* C21: visual_rows() is, group after group in the order of grouped_instances,
\* the group's header exactly when the group is collapsed or has a filtered
\* member, followed for a non-collapsed group by one Instance row per filtered
\* member in ascending visual index, and by nothing for a collapsed group.
C21_RowsByGroup ==
    LET rows == visual_rows(app)
        groups == 1..Len(app.grouped_instances)
        before(k) == Cardinality({j \in 1..(k - 1) : header_shown(app, j)})
                     + Cardinality(UNION {filtered_members(app, j) : j \in 1..(k - 1)})
    IN /\ Len(rows) = before(Len(app.grouped_instances) + 1)
       /\ \A k \in groups :
            /\ header_shown(app, k) =>
                 rows[before(k) + 1] =
                    [kind |-> "GroupHeader", key |-> group_key(app.grouped_instances[k]),
                     collapsed |-> is_collapsed(app, app.grouped_instances[k]),
                     count |-> Len(app.grouped_instances[k].instances)]
            /\ \A v \in filtered_members(app, k) :
                 rows[before(k) + 1
                      + Cardinality({w \in filtered_members(app, k) : w < v}) + 1] =
                    [kind |-> "Instance", idx |-> v]

\* a search on a list with a collapsed group (header only), a group with
\* matches (header and rows) and an expanded group without a match (nothing)
C21_ThreeKindsOfGroup ==
    /\ app.search_query # <<>>
    /\ \E k \in 1..Len(app.grouped_instances) :
            is_collapsed(app, app.grouped_instances[k])
    /\ \E k \in 1..Len(app.grouped_instances) : filtered_members(app, k) # {}
    /\ \E k \in 1..Len(app.grouped_instances) : ~header_shown(app, k)

----------------------------------------------------------------------------
(* The search filter                                                        *)

\* text s contains q somewhere, letters compared without regard to case
contains_ignoring_case(s, q) ==
    \E at \in 0..(Len(s) - Len(q)) :
        \A j \in 1..Len(q) : lower_char(s[at + j]) = lower_char(q[j])

\* s lists the members of the set of numbers S in ascending order
lists_ascending(s, S) ==
    /\ Len(s) = Cardinality(S)
    /\ {s[i] : i \in 1..Len(s)} = S
    /\ \A i \in 1..(Len(s) - 1) : s[i] < s[i + 1]

\* the search edits: a character typed, Backspace, Cancel
SearchEdits ==
    {MsgChar("SearchChar", c) : c \in SearchChars}
    \cup {Msg("SearchBackspace"), Msg("SearchCancel")}

\* C22: after SearchChar, SearchBackspace and SearchCancel, with the query
\* being the search entry after the edit, filtered_instance_indices lists the
\* visual indices of the instances of non-collapsed groups whose name, version,
\* loader or group contains the query, case ignored, filtered_account_indices
\* the accounts whose username does, and each selection is the first element of
\* its list, or 0 when the list is empty.
C22_FilterIsTheMatches ==
    \A msg \in SearchEdits :
        LET b == update(app, msg, env_with(TRUE, TRUE))
            query == b.input_buffer
            vm == visible_members(b)
            hit(instance) ==
                \/ contains_ignoring_case(instance.name, query)
                \/ contains_ignoring_case(instance.minecraft_version, query)
                \/ /\ IsSome(instance.mod_loader)
                   /\ contains_ignoring_case(Unwrap(instance.mod_loader), query)
                \/ /\ IsSome(instance.group)
                   /\ contains_ignoring_case(Unwrap(instance.group), query)
            fi == b.filtered_instance_indices
            fa == b.filtered_account_indices
        IN /\ query = IF msg.type = "SearchChar" THEN Append(app.input_buffer, msg.c)
                      ELSE IF msg.type = "SearchBackspace"
                           THEN SubSeq(app.input_buffer, 1, Len(app.input_buffer) - 1)
                      ELSE <<>>
           /\ vm = visible_members(app)
           /\ lists_ascending(fi, {v \in 0..(Len(vm) - 1) : hit(vm[v + 1])})
           /\ lists_ascending(fa, {i \in 0..(Len(b.accounts) - 1) :
                                      contains_ignoring_case(b.accounts[i + 1].username,
                                                             query)})
           /\ b.selected_instance_index = IF fi = <<>> THEN 0 ELSE fi[1]
           /\ b.selected_account_index = IF fa = <<>> THEN 0 ELSE fa[1]

\* 'B' was typed into the search: the filter keeps some instances, not the
\* first one, and one of the two accounts
C22_TypedCapital ==
    /\ app.event = Some(KeyMsg(Char(66), FALSE))
    /\ app.calls = <<"Key", "SearchChar">>
    /\ app.selected_instance_index > 0
    /\ app.selected_instance_index = app.filtered_instance_indices[1]
    /\ Len(app.filtered_account_indices) = 1

----------------------------------------------------------------------------
(* Group navigation                                                         *)

\* the libraries of the selection sessions and a library without instances
InitGroups ==
    /\ \E dir \in Libraries \cup {<<>>} : app = App_new(dir)
    /\ clock = 0
    /\ pc = "render"
    /\ channel = unbounded_channel

SpecGroups == InitGroups /\ [][NextSelect]_vars

\* k NextGroup messages in a row
RECURSIVE next_groups(_, _)
next_groups(a, k) ==
    IF k = 0 THEN a
    ELSE next_groups(update(a, Msg("NextGroup"), env_with(TRUE, TRUE)), k - 1)

\* b is a with the group selection on group `target` (counted from 0) and the
\* instance selection on the first member of that group, or where it was when
\* the group is collapsed
moved_to_group(a, b, target) ==
    LET group == a.grouped_instances[target + 1]
        first == Len(visible_members(a)) - Len(visible_from(a, target + 1))
    IN sans_calls(b) =
         sans_calls([a EXCEPT !.selected_group_index = target,
                              !.selected_instance_index =
                                  IF is_collapsed(a, group) \/ group.instances = <<>>
                                  THEN @ ELSE first])

\* C23: with n > 0 groups and the group selection on i, NextGroup moves it to
\* (i+1) mod n and PrevGroup to (i-1) mod n; NextGroup then PrevGroup, and n
\* NextGroups, bring it back to i; the instance selection moves to the first
\* member of the target group when that group is not collapsed and stays
\* where it was when it is collapsed; nothing else changes, and with no group
\* nothing changes at all.
C23_GroupsWrapAround ==
    LET env == env_with(TRUE, TRUE)
        n == Len(app.grouped_instances)
        i == app.selected_group_index
        next == update(app, Msg("NextGroup"), env)
        prev == update(app, Msg("PrevGroup"), env)
    IN IF n = 0
       THEN sans_calls(next) = sans_calls(app) /\ sans_calls(prev) = sans_calls(app)
       ELSE /\ i < n
            /\ moved_to_group(app, next, (i + 1) % n)
            /\ moved_to_group(app, prev, (i + n - 1) % n)
            /\ update(next, Msg("PrevGroup"), env).selected_group_index = i
            /\ next_groups(app, n).selected_group_index = i
            /\ \A k \in 1..(n - 1) : next_groups(app, k).selected_group_index # i

\* Ctrl+k on the first of three groups went round to the last one and selected
\* its first member
C23_WrappedBackwards ==
    /\ app.event = Some(KeyMsg(Char(107), TRUE))
    /\ app.calls = <<"Key", "PrevGroup">>
    /\ Len(app.grouped_instances) = 3
    /\ app.collapsed_groups = {}
    /\ app.selected_group_index = 2
    /\ app.selected_instance_index = 3
----------------------------------------------------------------------------
(* The sort-mode cycle                                                      *)

RECURSIVE next_times(_, _)
next_times(m, k) == IF k = 0 THEN m ELSE next_times(SortMode_next(m), k - 1)

\* the mode that follows the i-th mode of the fixed order
following(i) == SortModes[(i % Len(SortModes)) + 1]

\* C24: SortMode::next maps each mode of LastPlayed, Name, Playtime, Version,
\* ModLoader to the one that follows it and ModLoader to LastPlayed; from
\* every mode five applications return to it and one to four do not; a
\* CycleSortMode message leaves sort_mode one step further in this cycle.
C24_SortModeCycle ==
    /\ \A i \in 1..Len(SortModes) :
          /\ SortMode_next(SortModes[i]) = following(i)
          /\ next_times(SortModes[i], 5) = SortModes[i]
          /\ \A k \in 1..4 : next_times(SortModes[i], k) # SortModes[i]
    /\ \E i \in 1..Len(SortModes) :
          /\ app.sort_mode = SortModes[i]
          /\ update(app, Msg("CycleSortMode"), env_with(TRUE, TRUE)).sort_mode = following(i)
          /\ update(app, Msg("CycleSortMode"), env_with(TRUE, FALSE)).sort_mode = following(i)

\* the fifth S in a row has brought the list back to LastPlayed
C24_CycledBack ==
    /\ app.event = Some(KeyMsg(Char(83), FALSE))
    /\ app.calls = <<"Key", "CycleSortMode">>
    /\ app.sort_mode = "LastPlayed"
    /\ clock = 5
----------------------------------------------------------------------------
(* Grouping of arbitrary instance lists                                     *)

\* the longest instance list that is drawn
MaxInstances == 3

\* the group field of a drawn instance: none, "V", "m", "Ma"
GroupLabels == {None, Some(<<86>>), Some(<<109>>), Some(<<77, 97>>)}

\* the i-th instance of a drawn list: the names b, A, c, B, d, ..., play times
\* and launch dates differ so that the sort modes order the list differently
Drawn(i, g) ==
    Inst(<<"i1", "i2", "i3", "i4", "i5", "i6">>[i],
         <<IF i % 2 = 1 THEN 98 + (i \div 2) ELSE 64 + (i \div 2)>>,
         g, <<49, 46, 48 + ((i * 2) % 3)>>, None, (i * 3) % 4,
         IF i = 2 THEN None ELSE Some(10 * ((i * 3) % 5)))

DrawnLists ==
    UNION {{[i \in 1..n |-> Drawn(i, gs[i])] : gs \in [1..n -> GroupLabels]} :
           n \in 0..MaxInstances}

InitGrouping ==
    /\ \E dir \in DrawnLists : app = App_new(dir)
    /\ clock = 0
    /\ pc = "render"
    /\ channel = unbounded_channel

\* S and R: the next sort mode, the other sort direction
SortKey ==
    \E code \in {Char(83), Char(82)} :
        Deliver(KeyMsg(code, FALSE), 1, TRUE, TRUE, NoProcess)

NextGrouping == Render \/ SortKey

SpecGrouping == InitGrouping /\ [][NextGrouping]_vars

\* s comes before t in the order of their characters: s is a proper prefix of
\* t, or the first character in which they differ is the smaller one in s
label_before(s, t) ==
    \/ Len(s) < Len(t) /\ SubSeq(t, 1, Len(s)) = s
    \/ \E i \in 1..Len(s) :
          /\ i <= Len(t)
          /\ SubSeq(s, 1, i - 1) = SubSeq(t, 1, i - 1)
          /\ s[i] < t[i]

\* the position in the list s of the instance x
position(s, x) == CHOOSE i \in 1..Len(s) : s[i].id = x.id

----------------------------------------------------------------------------
(* The event producer and the channel (src/src/tui/events.rs, main.rs)      *)

\* the number of events the producer sends
MaxSent == 4

\* what the terminal reports: j and k pressed, j released, the wheel turned down
\* over the instance table, the window resized, the window focused
TerminalEvents ==
    {[raw |-> "Key", press |-> TRUE, key |-> KeyMsg(Char(106), FALSE)],
     [raw |-> "Key", press |-> TRUE, key |-> KeyMsg(Char(107), FALSE)],
     [raw |-> "Key", press |-> FALSE, key |-> KeyMsg(Char(106), FALSE)],
     [raw |-> "Mouse",
      mouse |-> MouseMsg("ScrollDown", 10, body_chunk(content_area(frame_area)).y + 1)],
     [raw |-> "Resize", w |-> 80, h |-> 24],
     [raw |-> "FocusGained"]}

\* mapped_event: key presses, mouse events and resizes become events
mapped_event(event) ==
    CASE event.raw = "Key" /\ event.press -> Some(event.key)
      [] event.raw = "Mouse" -> Some(event.mouse)
      [] event.raw = "Resize" -> Some([type |-> "Resize", w |-> event.w, h |-> event.h])
      [] OTHER -> None

\* the match of the main loop: Event to Message; a resize becomes a Tick
to_message(event) ==
    CASE event.type = "Key" -> event
      [] event.type = "Mouse" -> event
      [] event.type = "Tick" -> Msg("Tick")
      [] event.type = "Resize" -> Msg("Tick")

InitChannel ==
    /\ app = App_new(LibraryGrouped)
    /\ clock = 0
    /\ pc = "render"
    /\ channel = unbounded_channel

\* the spawned task, arm tick_delay: event_tx.send(Event::Tick)
TickArm ==
    /\ Len(channel.sent) < MaxSent
    /\ channel' = send(channel, [type |-> "Tick"])
    /\ UNCHANGED <<app, clock, pc>>

\* the spawned task, arm crossterm_event: the mapped event, if any, is sent
TerminalArm ==
    \E event \in TerminalEvents :
        /\ Len(channel.sent) < MaxSent
        /\ channel' = IF IsSome(mapped_event(event))
                       THEN send(channel, Unwrap(mapped_event(event)))
                       ELSE channel
        /\ UNCHANGED <<app, clock, pc>>

\* events.next().await returns the event at the head of the channel, 100 ms after
\* the previous one; update handles its message
Receive ==
    /\ channel.queue # <<>>
    /\ Handle(to_message(recv(channel).event), 1, TRUE, TRUE, NoProcess, MaxClock)
    /\ channel' = recv(channel).rest

NextChannel == Render \/ TickArm \/ TerminalArm \/ Receive

SpecChannel == InitChannel /\ [][NextChannel]_vars

\* the number of events received so far
received == Len(channel.sent) - Len(channel.queue)

\* C26: the events are handled in the order they were sent, one in a step: the
\* step that receives takes one event from the head of the channel, which is
\* the next of the sent ones not yet handled, at the loop's event position, and
\* leaves the application as the complete update of that event's message
\* (nested updates included) leaves it; a step that sends appends one event and
\* leaves application, loop position and clock alone; the application changes
\* in no step other than a receive and a render.
C26_HandledInOrderSent ==
    [][/\ Len(channel'.queue) < Len(channel.queue) =>
             /\ pc = "event"
             /\ channel'.queue = Tail(channel.queue)
             /\ channel'.sent = channel.sent
             /\ app'.event = Some(to_message(channel.sent[received + 1]))
             /\ app' = update([app EXCEPT !.event = app'.event], Unwrap(app'.event),
                              env_at(clock', TRUE, NoProcess))
             /\ pc' \in {"render", "done"}
       /\ Len(channel'.sent) > Len(channel.sent) =>
             /\ \E e \in {channel'.sent[Len(channel'.sent)]} :
                   /\ channel'.sent = Append(channel.sent, e)
                   /\ channel'.queue = Append(channel.queue, e)
             /\ UNCHANGED <<app, clock, pc>>
       /\ app' # app => \/ Len(channel'.queue) < Len(channel.queue)
                         \/ (pc = "render" /\ channel' = channel)
       /\ received <= Len(channel.sent)
       /\ channel.queue = SubSeq(channel.sent, received + 1, Len(channel.sent))]_vars

\* k, a resize and j were sent in this order while the loop waited; k has been
\* handled, the resize is being handled as a Tick and j is still in the channel
C26_ResizeBetweenKeys ==
    /\ channel.sent = <<KeyMsg(Char(107), FALSE), [type |-> "Resize", w |-> 80, h |-> 24],
                        KeyMsg(Char(106), FALSE)>>
    /\ channel.queue = <<KeyMsg(Char(106), FALSE)>>
    /\ app.event = Some(Msg("Tick"))
----------------------------------------------------------------------------
(* The effect of a frame                                                    *)

\* C27: a render pass changes the click-region registry and nothing else of the
\* application: the step of the loop that renders leaves every field of App
\* other than click_regions as it was (the record of the previous event ends
\* with the iteration), and so would a render in any reachable state.
C27_RenderKeepsTheState ==
    [][/\ pc = "render" =>
             [app' EXCEPT !.click_regions = app.click_regions, !.event = app.event,
                          !.calls = app.calls, !.target = app.target,
                          !.launched = app.launched] = app
       /\ [render(app) EXCEPT !.click_regions = app.click_regions] = app]_vars

\* the frame after a rejected address has been drawn: the entry, the error and
\* the regions of the Servers screen are there
C27_DrawnWithError ==
    /\ pc = "event"
    /\ app.event = None
    /\ app.screen = "Servers"
    /\ app.input_mode = "AddServerAddress"
    /\ IsSome(app.error_message)
    /\ app.servers # <<>>
    /\ app.selected_server_index > 0
    /\ app.click_regions # <<>>
----------------------------------------------------------------------------
(* The log viewer                                                           *)

\* L, Enter, J, K, 1, 3, 0, /, i, n, Esc
LogKeys ==
    {Char(76), Key("Enter"), Char(74), Char(75), Char(49), Char(51), Char(48), Char(47),
     Char(105), Char(110), Key("Esc")}

InitLogs ==
    /\ app = App_new(LibraryFlat)
    /\ clock = 0
    /\ pc = "render"
    /\ channel = unbounded_channel

\* a key pressed on the way to and in the log viewer; a log file may fail to load
LogKey ==
    \E code \in LogKeys, io_ok \in BOOLEAN :
        /\ room_for(KeyMsg(code, FALSE))
        /\ Deliver(KeyMsg(code, FALSE), 1, TRUE, io_ok, NoProcess)

NextLogs == Render \/ LogKey

SpecLogs == InitLogs /\ [][NextLogs]_vars

\* C28: in every reachable state log_scroll_offset is 0 or smaller than the
\* number of lines of the displayed, level-filtered log content.
C28_LogOffsetInRange ==
    \/ app.log_scroll_offset = 0
    \/ app.log_scroll_offset < Len(filtered_log_content(app))
----------------------------------------------------------------------------
(* Visits of the Servers screen                                             *)

\* j, s, /, d, y, Esc
VisitKeys == {Char(106), Char(115), Char(47), Char(100), Char(121), Key("Esc")}

\* the Instances, Accounts and Servers tabs
TabPoints == {<<3, 0>>, <<15, 0>>, <<25, 0>>}

\* a key; the servers files can be read and written
VisitKey ==
    \E code \in VisitKeys :
        /\ room_for(KeyMsg(code, FALSE))
        /\ Deliver(KeyMsg(code, FALSE), 1, TRUE, TRUE, NoProcess)

\* a left press on a tab
TabPress ==
    \E p \in TabPoints : Deliver(MouseMsg("DownLeft", p[1], p[2]), 1, TRUE, TRUE, NoProcess)

NextVisit == Render \/ VisitKey \/ TabPress

SpecVisit == InitDialogs /\ [][NextVisit]_vars

\* C29: whenever the Servers screen is active an instance is selected and the
\* server list in memory is the list of that instance: as no read or write of
\* a servers file fails here, it equals the content of the selected instance's
\* servers file, the file every save writes.
C29_ServersOfSelectedInstance ==
    app.screen = "Servers" =>
        /\ IsSome(selected_instance(app))
        /\ app.servers = app.servers_dat[Unwrap(selected_instance(app)).id]
----------------------------------------------------------------------------
(* The scroll wheel during the server dialogs                               *)

\* the wheel turned over the list of the screen
Wheel ==
    \E kind \in {"ScrollUp", "ScrollDown"} :
        DeliverBy(MouseMsg(kind, 10, 5), 1, TRUE, TRUE, NoProcess, MaxSteps)

NextWheel == Render \/ NavKey \/ TypeKey \/ AnswerKey \/ Wheel

SpecWheel == InitDialogs /\ [][NextWheel]_vars

\* the modes of the edit and delete dialogs
TargetDialogs == {"EditServerName", "EditServerAddress", "ConfirmDelete"}

\* C30: while the edit dialog or the delete prompt is open, no event changes
\* selected_server_index: a step that starts and ends in one of the modes
\* EditServerName, EditServerAddress, ConfirmDelete leaves it as it was, so the
\* server the confirmation changes or removes is the one selected when the
\* dialog opened.
C30_SelectionHeldByDialog ==
    [][(app.input_mode \in TargetDialogs /\ app'.input_mode \in TargetDialogs) =>
          app'.selected_server_index = app.selected_server_index]_vars
----------------------------------------------------------------------------
(* Double-click activation and the target of the previous press             *)

\* the messages a double click adds to the selection
Activations ==
    {"LaunchInstance", "ConfirmAccountSelection", "LaunchWithServer", "LoadLogContent"}

\* C31: a left press activates (launch, confirm account, launch with server,
\* load log) only if the press before it resolved to the same row on the same
\* screen.
C31_ActivationNeedsSameRow ==
    [][(/\ pc = "event"
        /\ Len(app'.calls) >= 3
        /\ app'.calls[1] = "Mouse"
        /\ app'.calls[3] \in Activations)
          => /\ IsSome(app.pressed)
             /\ Unwrap(app.pressed).target = app'.target
             /\ Unwrap(app.pressed).screen = app.screen]_vars
----------------------------------------------------------------------------
(* KillInstance and the running record                                      *)

\* the step handles KillInstance while the selected instance is running
kills_running ==
    /\ pc = "event"
    /\ Len(app'.calls) >= 2
    /\ app'.calls[2] = "KillInstance"
    /\ IsSome(selected_instance(app))
    /\ is_instance_running(app, Unwrap(selected_instance(app)).id)

\* C32: KillInstance removes the running record of the selected instance only
\* if a termination signal was sent to its process; the record of an instance
\* whose pid is not yet bound stays as it was.
C32_RemovedOnlyIfSignalled ==
    [][kills_running =>
          LET id == Unwrap(selected_instance(app)).id
          IN /\ ~is_instance_running(app', id) => (\E i \in 1..Len(app'.calls) : app'.calls[i] = "kill_with")
             /\ ~IsSome(app.running_instances[id].pid) =>
                   /\ is_instance_running(app', id)
                   /\ app'.running_instances[id] = app.running_instances[id]]_vars
----------------------------------------------------------------------------
(* The process scan in detail: command lines and instance paths             *)

\* two instances whose directories are "i1" and "i10"; "i1" was played last,
\* "i10" has the name that sorts first
LibraryPrefix ==
    << Inst("i1", <<98>>, None, <<49, 46, 50>>, None, 1, Some(30)),
       Inst("i10", <<65>>, None, <<49, 46, 50>>, None, 2, Some(20)) >>

\* Instance::path, the directory <instances>/<id>: "/i1", "/i10"
instance_path(id) ==
    CASE id = "i1" -> <<47, 105, 49>>
      [] id = "i10" -> <<47, 105, 49, 48>>

\* the command lines of the processes: "java /i1", "java /i10", "sh /i1"
Commands ==
    {<<106, 97, 118, 97, 32, 47, 105, 49>>,
     <<106, 97, 118, 97, 32, 47, 105, 49, 48>>,
     <<115, 104, 32, 47, 105, 49>>}

\* snapshots of the process table: pid -> command line
CommandTables == UNION {[S -> Commands] : S \in SUBSET Pids}

\* is_java: an argument contains "java"
is_java(cmd) == contains(cmd, <<106, 97, 118, 97>>)

\* the `for inst in instances` loop: the first instance of the list whose path
\* the command line contains
RECURSIVE first_match(_, _)
first_match(cmd, instances) ==
    IF instances = <<>> THEN None
    ELSE IF contains(cmd, instance_path(Head(instances).id)) THEN Some(Head(instances).id)
    ELSE first_match(cmd, Tail(instances))

\* scan_java_processes on a snapshot: the maps it can return; each Java
\* process is inserted under the first instance it matches
scan_snapshot(commands, instances) ==
    LET matched == {p \in DOMAIN commands :
                      is_java(commands[p]) /\ IsSome(first_match(commands[p], instances))}
    IN scan_outcomes([p \in matched |-> Unwrap(first_match(commands[p], instances))])

InitScan ==
    /\ app = App_new(LibraryPrefix)
    /\ clock = 0
    /\ pc = "render"
    /\ channel = unbounded_channel

\* l, j, S pressed before the first tick
ScanKey ==
    \E code \in {Char(108), Char(106), Char(83)} :
        /\ clock <= MaxKeyTime
        /\ DeliverBy(KeyMsg(code, FALSE), 0, TRUE, TRUE, NoProcess, MaxTime)

\* a tick whose scan sees one of the snapshots
ScanTick ==
    \E dt \in TickGaps, commands \in CommandTables :
        \E found \in scan_snapshot(commands, app.instances) :
            DeliverBy(Msg("Tick"), dt, TRUE, TRUE, found, MaxTime)

NextScan == Render \/ ScanKey \/ ScanTick

SpecScan == InitScan /\ [][NextScan]_vars

\* C33: a scan whose snapshot holds a Java process with the path of a running
\* instance in its command line does not evict that instance, whatever the
\* other paths and the order of the instance list.
C33_MatchedNeverEvicted ==
    \A id \in DOMAIN app.running_instances, dt \in TickGaps, commands \in CommandTables :
        (\E p \in DOMAIN commands :
            is_java(commands[p]) /\ contains(commands[p], instance_path(id)))
        => \A found \in scan_snapshot(commands, app.instances) :
              id \in DOMAIN after_scan(dt, found).running_instances
----------------------------------------------------------------------------
(* Left presses while a dialog or an error is drawn over the screen         *)

\* the Instances tab, a list row and the dialog body
OverlayPoints == {<<3, 0>>, <<10, 5>>, <<60, 7>>}

\* a left press
OverlayPress ==
    \E p \in OverlayPoints :
        DeliverBy(MouseMsg("DownLeft", p[1], p[2]), 1, TRUE, TRUE, NoProcess, MaxSteps)

NextOverlay == Render \/ NavKey \/ TypeKey \/ AnswerKey \/ OverlayPress

SpecOverlay == InitDialogs /\ [][NextOverlay]_vars

\* the modes of the server dialogs and of the delete prompt
ServerDialogs ==
    {"AddServerName", "AddServerAddress", "EditServerName", "EditServerAddress",
     "ConfirmDelete"}

\* a left press lands outside the box of a displayed error
dismisses_error ==
    /\ pc = "event"
    /\ IsSome(app.error_message)
    /\ app'.calls # <<>>
    /\ app'.calls[1] = "Mouse"
    /\ IsSome(app'.target)
    /\ Unwrap(app'.target).kind = "DismissOverlay"

\* C34: a left press that dismisses a displayed error while a server dialog
\* is open changes nothing but the error: input_mode and input_buffer are
\* left as they were.
C34_DismissKeepsTheDialog ==
    [][(dismisses_error /\ app.input_mode \in ServerDialogs)
          => /\ app'.input_mode = app.input_mode
             /\ app'.input_buffer = app.input_buffer]_vars
----------------------------------------------------------------------------
(* The search entries and the screen they belong to                         *)

\* C35: input_mode = Search only while the screen is Instances or Accounts,
\* and input_mode = LogSearch only while the screen is Logs.
C35_SearchOnItsScreen ==
    /\ app.input_mode = "Search" => app.screen \in {"Instances", "Accounts"}
    /\ app.input_mode = "LogSearch" => app.screen = "Logs"
----------------------------------------------------------------------------
(* The server dialogs and the screen underneath                             *)

\* C36: while a server dialog or the delete prompt is open the screen is
\* Servers: no left press reaches a region underneath the dialog and no key
\* changes the screen.
C36_DialogOnServers ==
    app.input_mode \in ServerDialogs => app.screen = "Servers"

\* a left press has been absorbed by the body of an open dialog
C36_PressedOnDialog ==
    /\ app.input_mode \in ServerDialogs
    /\ app.calls = <<"Mouse">>
    /\ IsSome(app.target)
    /\ Unwrap(app.target).kind = "Noop"
----------------------------------------------------------------------------
(* A launch of an instance that is already running                          *)

\* the step handles the launch message `type` of a key while the selected
\* instance is running
launches_running(type) ==
    /\ pc = "event"
    /\ app'.calls = <<"Key", type>>
    /\ IsSome(selected_instance(app))
    /\ is_instance_running(app, Unwrap(selected_instance(app)).id)

\* the launcher is not called, no running record changes and the error is set
refused ==
    /\ app'.launched = <<>>
    /\ app'.running_instances = app.running_instances
    /\ app'.error_message = Some("Instance is already running")

\* C37: LaunchInstance or LaunchWithServer for an instance that is already in
\* the running set never calls the launcher, leaves the running record
\* unchanged and sets the error "Instance is already running"; no launch is
\* made for an instance that has a record, so there is one record per id.
C37_RunningNotLaunchedAgain ==
    [][/\ \A type \in {"LaunchInstance", "LaunchWithServer"} :
              launches_running(type) => refused
       /\ pc = "event" =>
              \A i \in 1..Len(app'.launched) :
                  app'.launched[i] \notin DOMAIN app.running_instances]_vars

\* C37 as amended: the same, where LaunchWithServer is handled with a server
\* selected; without a selected server it does nothing and sets no error.
C37_RunningNotLaunchedAgain_WithServer ==
    [][/\ launches_running("LaunchInstance") => refused
       /\ (launches_running("LaunchWithServer") /\ IsSome(selected_server(app))) => refused
       /\ (launches_running("LaunchWithServer") /\ ~IsSome(selected_server(app)))
              => /\ app'.launched = <<>>
                 /\ app'.running_instances = app.running_instances
                 /\ app'.error_message = None
       /\ pc = "event" =>
              \A i \in 1..Len(app'.launched) :
                  app'.launched[i] \notin DOMAIN app.running_instances]_vars

\* 'l' on the server screen was refused for the running instance
C37_RefusedWithServer ==
    /\ app.calls = <<"Key", "LaunchWithServer">>
    /\ app.launched = <<>>
    /\ app.error_message = Some("Instance is already running")
    /\ IsSome(selected_instance(app))
    /\ is_instance_running(app, Unwrap(selected_instance(app)).id)
----------------------------------------------------------------------------
(* The log search and the log file it was made in                           *)

\* L, Enter, j, k, /, i, n, Esc
LogFileKeys ==
    {Char(76), Key("Enter"), Char(106), Char(107), Char(47), Char(105), Char(110),
     Key("Esc")}

\* a key pressed on the way to and in the log viewer; a log file may fail to load
LogFileKey ==
    \E code \in LogFileKeys, io_ok \in BOOLEAN :
        /\ room_for(KeyMsg(code, FALSE))
        /\ Deliver(KeyMsg(code, FALSE), 1, TRUE, io_ok, NoProcess)

NextLogFiles == Render \/ LogFileKey

SpecLogFiles == InitLogs /\ [][NextLogFiles]_vars

\* C38: every entry of log_search_matches is a line index of the current
\* log_content whose line contains log_search_query case-insensitively, and
\* log_search_current is smaller than the number of matches whenever there is
\* at least one match.
C38_MatchesOfTheContent ==
    /\ \A m \in 1..Len(app.log_search_matches) :
          LET i == app.log_search_matches[m]
          IN /\ i < Len(app.log_content)
             /\ contains_ignoring_case(app.log_content[i + 1], app.log_search_query)
    /\ app.log_search_matches # <<>> =>
          app.log_search_current < Len(app.log_search_matches)
----------------------------------------------------------------------------
(* j and k on the instance list                                             *)

\* j, k, g, /, b, Tab, Enter, Esc
MoveKeys ==
    {Char(106), Char(107), Char(103), Char(47), Char(98), Key("Tab"), Key("Enter"),
     Key("Esc")}

MoveKey ==
    \E code \in MoveKeys :
        /\ room_for(KeyMsg(code, FALSE))
        /\ (code = Key("Enter") => app.input_mode = "Search")
        /\ Deliver(KeyMsg(code, FALSE), 1, TRUE, TRUE, NoProcess)

NextMove == Render \/ MoveKey \/ GroupKey

SpecMove == Init /\ [][NextMove]_vars

\* the places of the list at which x stands
places(list, x) == {i \in 1..Len(list) : list[i] = x}

\* where j leads from the selection `from`: the element after it, the first
\* element from the last one and from outside the list
after_j(list, from) ==
    IF \E i \in places(list, from) : i < Len(list)
    THEN list[(CHOOSE i \in places(list, from) : i < Len(list)) + 1]
    ELSE list[1]

\* where k leads from the selection `from`: the element before it, the first
\* element from the first one and from outside the list
after_k(list, from) ==
    IF \E i \in places(list, from) : i > 1
    THEN list[(CHOOSE i \in places(list, from) : i > 1) - 1]
    ELSE list[1]

\* the step handles the plain key `c` on the Instances screen in Normal mode
moves_by(c) ==
    /\ pc = "event"
    /\ app.screen = "Instances"
    /\ app.input_mode = "Normal"
    /\ app'.event = Some(KeyMsg(Char(c), FALSE))

\* C39: on the Instances screen in Normal mode j selects the next element of
\* filtered_instance_indices and wraps from the last to the first, k selects
\* the previous one and stays on the first; from a selection outside the
\* filtered set both select the first filtered element, and with an empty
\* filtered set neither changes the selection.
C39_MoveWithinFiltered ==
    [][LET list == app.filtered_instance_indices
           from == app.selected_instance_index
       IN /\ moves_by(106) =>
                app'.selected_instance_index = IF list = <<>> THEN from ELSE after_j(list, from)
          /\ moves_by(107) =>
                app'.selected_instance_index = IF list = <<>> THEN from ELSE after_k(list, from)]_vars

\* C39 as amended: the same for a key that follows no pending g; after a
\* pending g the selection first goes to the first filtered element and j and
\* k act from there.
C39_MoveWithinFiltered_NoPrefix ==
    [][LET list == app.filtered_instance_indices
           from == IF app.pending_key = None \/ list = <<>>
                   THEN app.selected_instance_index ELSE list[1]
       IN /\ moves_by(106) =>
                app'.selected_instance_index = IF list = <<>> THEN from ELSE after_j(list, from)
          /\ moves_by(107) =>
                app'.selected_instance_index = IF list = <<>> THEN from ELSE after_k(list, from)]_vars

\* j has wrapped from the last of several filtered elements to the first
C39_Wrapped ==
    /\ app.event = Some(KeyMsg(Char(106), FALSE))
    /\ app.calls = <<"Key", "SelectInstance">>
    /\ app.search_query # <<>>
    /\ Len(app.filtered_instance_indices) >= 2
    /\ app.selected_instance_index = app.filtered_instance_indices[1]
----------------------------------------------------------------------------
(* Quit and the end of the main loop                                        *)

\* what the terminal reports: q, /, j and Esc pressed
QuitEvents ==
    {[raw |-> "Key", press |-> TRUE, key |-> KeyMsg(Char(113), FALSE)],
     [raw |-> "Key", press |-> TRUE, key |-> KeyMsg(Char(47), FALSE)],
     [raw |-> "Key", press |-> TRUE, key |-> KeyMsg(Char(106), FALSE)],
     [raw |-> "Key", press |-> TRUE, key |-> KeyMsg(Key("Esc"), FALSE)]}

\* the spawned task, arm crossterm_event, which goes on sending while the
\* stream is alive
QuitArm ==
    \E event \in QuitEvents :
        /\ Len(channel.sent) < MaxSent
        /\ channel' = send(channel, Unwrap(mapped_event(event)))
        /\ UNCHANGED <<app, clock, pc>>

NextQuit == Render \/ TickArm \/ QuitArm \/ Receive

SpecQuit == InitChannel /\ [][NextQuit]_vars

\* update was entered with Quit in this step
quits ==
    /\ pc = "event"
    /\ \E i \in 1..Len(app'.calls) : app'.calls[i] = "Quit"

\* C40: once Quit has been applied the running flag is false and stays false,
\* the main loop is over, and no event enqueued afterwards (or before and not
\* yet received) is applied to the state: the application never changes again.
C40_NothingAfterQuit ==
    [][/\ quits => (~app'.running /\ pc' = "done")
       /\ ~app.running => (pc = "done" /\ pc' = "done" /\ app' = app)
       /\ (app.running /\ ~app'.running) => quits]_vars

\* the loop has ended on q while two later events wait in the channel
C40_EventsLeftBehind ==
    /\ ~app.running
    /\ pc = "done"
    /\ app.calls = <<"Key", "Quit">>
    /\ channel.sent[1] = KeyMsg(Char(113), FALSE)
    /\ Len(channel.queue) = 2
====
